---- MODULE Spec2Model ----
(***************************************************************************)
(* The on-chain swap simulation subsystem of compare-aggregators-monad:    *)
(*   - retryWithBackoff            (src/utils/retry.ts)                    *)
(*   - setERC20Balance and helpers (src/compare.ts)                        *)
(*   - runComparison / simulateTransaction (src/compare.ts),               *)
(*     resetForkWithRetry / executeTransactionWithRetry                    *)
(*     (src/utils/client.ts)                                               *)
(* Three specifications share the variables; each one leaves the other     *)
(* subsystems' variables at their initial values.                          *)
(***************************************************************************)
EXTENDS Integers, Sequences, FiniteSets, TLC

(***************************************************************************)
(* Bounds of the model                                                     *)
(***************************************************************************)
MaxAttemptsBound == 3
MaxFaults == 1
MaxCalls == 2

(***************************************************************************)
(* Errors.  An error carries a message and details; the code classifies it *)
(* by substring tests.  The messages below are concrete; Lower[m] is the   *)
(* set of the tested phrases that m.toLowerCase() contains, Exact[m] the   *)
(* set of those m itself contains (case-sensitive tests).                  *)
(***************************************************************************)
MsgTxTimedOut == "Transaction timed out after 600000ms"
MsgReceiptTimedOut == "Receipt wait timed out after 600000ms"
MsgResetTimedOut == "Fork reset timed out after 5 minutes"
MsgGatewayTimeout == "HTTP request failed. Status: 504 Gateway Timeout"
MsgRequestTimeout == "request timeout"
MsgReverted == "execution reverted"
MsgBlockNotFound == "Block requested not found"
MsgConnReset == "read ECONNRESET"
MsgInvalidBlock == "invalid block number"
MsgFailedSetBalance == "Failed to set token balance for simulation"
MsgNoTarget == "Target contract does not exist"
MsgRevertNetwork == "execution reverted: unsupported network"
MsgRateLimit == "429 Too Many Requests"
MsgInsufficientFunds == "insufficient funds for gas * price + value"
MsgInvalidSignature == "invalid signature"

Messages ==
    { MsgTxTimedOut, MsgReceiptTimedOut, MsgResetTimedOut, MsgGatewayTimeout,
      MsgRequestTimeout, MsgReverted, MsgBlockNotFound, MsgConnReset,
      MsgInvalidBlock, MsgFailedSetBalance, MsgNoTarget, MsgRevertNetwork,
      MsgRateLimit, MsgInsufficientFunds, MsgInvalidSignature, "" }

Lower ==
    [ m \in Messages |->
        CASE m = MsgTxTimedOut      -> {"timed out"}
          [] m = MsgReceiptTimedOut -> {"timed out"}
          [] m = MsgResetTimedOut   -> {"timed out"}
          [] m = MsgGatewayTimeout  -> {"timeout", "gateway timeout"}
          [] m = MsgRequestTimeout  -> {"timeout"}
          [] m = MsgReverted        -> {"revert"}
          [] m = MsgBlockNotFound   -> {"block requested not found", "not found"}
          [] m = MsgConnReset       -> {"econnreset"}
          [] m = MsgInvalidBlock    -> {"invalid block"}
          [] m = MsgRevertNetwork   -> {"revert", "network"}
          [] m = MsgRateLimit       -> {"too many requests"}
          [] m = MsgInsufficientFunds -> {"insufficient funds"}
          [] m = MsgInvalidSignature  -> {"invalid signature"}
          [] OTHER                  -> {} ]

Exact ==
    [ m \in Messages |->
        CASE m = MsgTxTimedOut      -> {"timed out"}
          [] m = MsgReceiptTimedOut -> {"timed out"}
          [] m = MsgResetTimedOut   -> {"timed out"}
          [] m = MsgRequestTimeout  -> {"timeout"}
          [] OTHER                  -> {} ]

Err(m) == [message |-> m, details |-> ""]
NoError == [message |-> "", details |-> ""]

\* The outcome of one awaited call.
Resolved == [ok |-> TRUE, error |-> NoError]
Rejected(e) == [ok |-> FALSE, error |-> e]

\* Errors a node call can fail with.
NodeErrors ==
    { Err(MsgRequestTimeout), Err(MsgGatewayTimeout), Err(MsgReverted),
      Err(MsgBlockNotFound), Err(MsgConnReset), Err(MsgInvalidBlock),
      Err(MsgRevertNetwork), Err(MsgRateLimit),
      Err(MsgInsufficientFunds), Err(MsgInvalidSignature),
      [message |-> "", details |-> MsgRequestTimeout] }

(***************************************************************************)
(* retry.ts                                                                *)
(***************************************************************************)
DEFAULT_RETRY_OPTIONS ==
    [maxAttempts |-> 3, initialDelay |-> 1000, maxDelay |-> 30000, backoffMultiplier |-> 2]

defaultShouldRetry(error) ==
    LET errorMessage == Lower[error.message]
        errorDetails == Lower[error.details]
    IN  IF "timeout" \in errorMessage \/ "timeout" \in errorDetails THEN TRUE
        ELSE IF "econnrefused" \in errorMessage \/ "econnreset" \in errorMessage THEN TRUE
        ELSE IF "rate limit" \in errorMessage \/ "too many requests" \in errorMessage THEN TRUE
        ELSE IF "network" \in errorMessage \/ "fetch failed" \in errorMessage THEN TRUE
        ELSE IF "block requested not found" \in errorMessage
                \/ "block requested not found" \in errorDetails THEN TRUE
        ELSE IF "revert" \in errorMessage /\ ~("timeout" \in errorMessage) THEN FALSE
        ELSE FALSE

\* A classifier that retries whatever the error is.
resetShouldRetryAlways(error) == TRUE

\* shouldRetry of resetForkWithRetry
resetShouldRetry(error) ==
    LET message == Lower[error.message]
    IN  ~("invalid block" \in message) /\ ~("not found" \in message)

ShouldRetry(classifier, error) ==
    IF classifier = "reset" THEN resetShouldRetry(error) ELSE defaultShouldRetry(error)

Min(a, b) == IF a < b THEN a ELSE b
Max(a, b) == IF a > b THEN a ELSE b

\* The test of the catch block: stop retrying after this failed attempt?
StopRetryingIgnoringClassifier(attempt, maxAttempts, retryable) ==
    attempt = maxAttempts

StopRetrying(attempt, maxAttempts, retryable) ==
    attempt = maxAttempts \/ ~retryable

\* The update of line 213 without its Math.min.
NextDelayUnclamped(delay, backoffMultiplier, maxDelay) == delay * backoffMultiplier

\* The update of the delay after a sleep (line 213)
NextDelay(delay, backoffMultiplier, maxDelay) ==
    Min(delay * backoffMultiplier, maxDelay)

VARIABLES
    \* ---- one call of retryWithBackoff ----
    rOpts,      \* the merged options of the call
    rPc,        \* "loop" | "returned" | "thrown"
    rAttempt,   \* the loop variable
    rDelay,     \* the current delay
    rHist,      \* outcome of every invocation of fn, in order
    rLog,       \* onRetry calls and sleeps, in order
    rThrown,    \* the error thrown by retryWithBackoff
    \* ---- setERC20Balance on one token of the fork ----
    tok,          \* the token contract: how balanceOf reads storage (fixed)
    storage,      \* the token contract's storage on the fork
    nativeBal,    \* the holder's native balance, in units of 10^18 wei
    impersonating,\* the node impersonates the holder
    cache,        \* BALANCE_SLOT_CACHE[token], NoSlot when absent
    iPc,          \* position inside setERC20Balance
    iIdx,         \* index of the loop at iPc
    iSub,         \* index of the inner loop of method 6
    iAmount,      \* the amount argument
    iImpl,        \* implementationAddress is non-null
    iFound,       \* findBalanceSlot's return value
    iRet,         \* last return value: "none", "true", "false"
    iPre,         \* storage when the current call started
    iHadCache,    \* the cache entry when the current call started
    iWrites,      \* storage-write requests sent by the current call
    iProbed,      \* keys the current call sent a write for
    iCalls,       \* calls started
    iConfirmed,   \* an earlier call returned true with a slot in the cache
    iFaults,      \* node calls that have thrown
    iVerified,    \* where the current call first read a balance >= amount, or "none"
    \* ---- runComparison: the run, the fork and the simulation in progress ----
    simulation,   \* SIMULATION: the run was started with --simulation
    monPrice,     \* TOKEN_PRICES_IN_NATIVE_TOKEN[tokenOut], 0 when absent
    runPc,        \* "fetch" | "sim" | "collect" | "write" | "done" | "aborted"
    pair,         \* index of the (pair, amount) being processed
    tokenIn,      \* the pair's input token: native or ERC20, and what the test account holds
    quoteResults, \* per provider: the fetchQuote promise and its result
    pIdx,         \* index of the provider being simulated
    results,      \* rows of this (pair, amount)
    allResults,   \* rows of the (pair, amount)s already completed
    emitted,      \* rows written to the CSV file
    forkBlock,    \* block the fork was last reset to (0: never)
    outBal,       \* the test account's output-token balance on the fork
    inBal,        \* the test account's input-token balance on the fork
    allowance,    \* the swap target's allowance on the fork
    sPc,          \* step of the provider's cycle
    resetAttempt, \* attempt of resetForkWithRetry's retry loop
    resetErrors,  \* errors the attempts of that loop have thrown
    currentBlock, \* what getBlockNumber returned in forkToBlock (0: not asked)
    txAttempt,    \* attempt of executeTransactionWithRetry's retry loop
    initialBalance, \* simulateTransaction's snapshot
    receipt,      \* receipt of executeTransactionWithRetry
    simulationResult, \* the provider's SimulationResult
    sLog,         \* fork calls of the provider's cycle, in order
    sim,          \* what the cycle observed: balances read, calls made
    faults,       \* operations of the run that met a node failure
    \* ---- one call of waitForAnvil ----
    wPc,          \* "test" | "check" | "sleep" | "returned" | "thrown"
    wNow,         \* Date.now() - startTime
    wMax,         \* maxWaitTime
    wChecks,      \* the health checks made: when each started and ended, its result
    \* ---- the process and its shutdown handler ----
    gPc,            \* "running" | "cleanup" | "exited"
    isShuttingDown, \* the flag of setupGracefulShutdown
    gEvents,        \* the fatal events the process received, in order
    gCleanups,      \* calls of the cleanup callback
    gExit,          \* the code given to process.exit (-1: none)
    \* ---- one call of withErrorRecovery ----
    eOpts,      \* maxGlobalRetries, continueOnError
    ePc,        \* "loop" | "returned" | "null" | "thrown"
    eAttempt,   \* the loop variable
    eHist,      \* outcomes of the invocations of operation, in order
    eSleeps,    \* the delays slept between invocations
    \* ---- the net amount of one simulated swap ----
    cPc,        \* "cost" | "net" | "done"
    cIn,        \* amountOut, gasUsed, the price of the native token, the decimals
    cGasCost,   \* gasCostInTokenOut
    cNet,       \* netAmount
    \* ---- one call of generateSummaryReport ----
    mPc,        \* "stats" | "done"
    mResults,   \* the results handed to the report
    mStats,     \* per aggregator: its results, successCount, successfulQuotes
    \* ---- one call of processWithRecovery ----
    bOpts,      \* the items' number, maxConcurrent, continueOnItemError
    bPc,        \* "loop" | "await" | "spin" | "returned" | "thrown"
    bNext,      \* the next item to start (the head of the queue, or i)
    bInFlight,  \* items whose processor call has not settled
    bResults,   \* the results array
    bCalls,     \* per item: calls of the processor
    bSettled,   \* per item: how its processor call settled, "none" before
    \* simulateTransaction, the balances
    aPair,      \* the sample: is the input token native, is the output token, amountIn
    aPc,        \* "off", "fund", "snapshot", "submit", "finish", "returned"
    aNative,    \* the test account's native balance on the fork
    aToken,     \* its balance of an ERC20 output token
    aInitial,   \* initialBalance
    aReceipt,   \* receipt.status, "none" before
    aResult     \* the SimulationResult's status and amountOut

retryVars == <<rOpts, rPc, rAttempt, rDelay, rHist, rLog, rThrown>>

injectVars ==
    <<tok, storage, nativeBal, impersonating, cache, iPc, iIdx, iSub, iAmount, iImpl,
      iFound, iRet, iPre, iHadCache, iWrites, iProbed, iCalls, iConfirmed, iFaults,
      iVerified>>

runVars ==
    <<simulation, monPrice, runPc, pair, tokenIn, quoteResults, pIdx, results,
      allResults, emitted, forkBlock, outBal, inBal, allowance, sPc, resetAttempt,
      resetErrors, currentBlock, txAttempt, initialBalance, receipt, simulationResult, sLog, sim, faults>>

waitVars == <<wPc, wNow, wMax, wChecks>>

shutVars == <<gPc, isShuttingDown, gEvents, gCleanups, gExit>>

recVars == <<eOpts, ePc, eAttempt, eHist, eSleeps>>

gasVars == <<cPc, cIn, cGasCost, cNet>>

sumVars == <<mPc, mResults, mStats>>

batchVars == <<bOpts, bPc, bNext, bInFlight, bResults, bCalls, bSettled>>
acctVars == <<aPair, aPc, aNative, aToken, aInitial, aReceipt, aResult>>

vars ==
    <<retryVars, injectVars, runVars, waitVars, shutVars, recVars, gasVars, sumVars,
      batchVars, acctVars>>

RetryOptionSets ==
    [ maxAttempts : 0..MaxAttemptsBound,
      initialDelay : {0, 1000},
      maxDelay : {500, 1000, 3000},
      backoffMultiplier : {1, 2},
      classifier : {"default", "reset"},
      hasOnRetry : BOOLEAN ]

RetryIdle ==
    /\ rOpts = [maxAttempts |-> 0, initialDelay |-> 0, maxDelay |-> 0,
                backoffMultiplier |-> 2, classifier |-> "default", hasOnRetry |-> FALSE]
    /\ rPc = "thrown"
    /\ rAttempt = 1
    /\ rDelay = 0
    /\ rHist = <<>>
    /\ rLog = <<>>
    /\ rThrown = NoError

RetryInit ==
    /\ rOpts \in RetryOptionSets
    /\ rPc = "loop"
    /\ rAttempt = 1
    /\ rDelay = rOpts.initialDelay
    /\ rHist = <<>>
    /\ rLog = <<>>
    /\ rThrown = NoError

\* fn() resolves: retryWithBackoff returns its value.
RetryFnReturns ==
    /\ rPc = "loop"
    /\ rAttempt <= rOpts.maxAttempts
    /\ rHist' = Append(rHist, Resolved)
    /\ rPc' = "returned"
    /\ UNCHANGED <<rOpts, rAttempt, rDelay, rLog, rThrown>>
    /\ UNCHANGED <<injectVars, runVars, waitVars, shutVars, recVars, gasVars, sumVars, batchVars, acctVars>>

\* The catch block with the callback and the sleep placed before the test of
\* line 200: the last failed attempt is followed by them as well.
RetryFnThrowsSleepFirst ==
    /\ rPc = "loop"
    /\ rAttempt <= rOpts.maxAttempts
    /\ \E error \in NodeErrors :
        /\ rHist' = Append(rHist, Rejected(error))
        /\ rLog' = rLog
                \o (IF rOpts.hasOnRetry THEN <<[op |-> "onRetry", arg |-> rAttempt]>> ELSE <<>>)
                \o <<[op |-> "sleep", arg |-> rDelay]>>
        /\ IF StopRetrying(rAttempt, rOpts.maxAttempts, ShouldRetry(rOpts.classifier, error))
           THEN /\ rPc' = "thrown"
                /\ rThrown' = error
                /\ UNCHANGED <<rAttempt, rDelay>>
           ELSE /\ rDelay' = NextDelay(rDelay, rOpts.backoffMultiplier, rOpts.maxDelay)
                /\ rAttempt' = rAttempt + 1
                /\ UNCHANGED <<rPc, rThrown>>
    /\ UNCHANGED rOpts
    /\ UNCHANGED <<injectVars, runVars, waitVars, shutVars, recVars, gasVars, sumVars, batchVars, acctVars>>

\* fn() rejects with error: the catch block.
RetryFnThrows ==
    /\ rPc = "loop"
    /\ rAttempt <= rOpts.maxAttempts
    /\ \E error \in NodeErrors :
        /\ rHist' = Append(rHist, Rejected(error))
        /\ IF StopRetrying(rAttempt, rOpts.maxAttempts, ShouldRetry(rOpts.classifier, error))
           THEN /\ rPc' = "thrown"
                /\ rThrown' = error
                /\ UNCHANGED <<rAttempt, rDelay, rLog>>
           ELSE /\ rLog' = rLog
                        \o (IF rOpts.hasOnRetry THEN <<[op |-> "onRetry", arg |-> rAttempt]>> ELSE <<>>)
                        \o <<[op |-> "sleep", arg |-> rDelay]>>
                /\ rDelay' = NextDelay(rDelay, rOpts.backoffMultiplier, rOpts.maxDelay)
                /\ rAttempt' = rAttempt + 1
                /\ UNCHANGED <<rPc, rThrown>>
    /\ UNCHANGED rOpts
    /\ UNCHANGED <<injectVars, runVars, waitVars, shutVars, recVars, gasVars, sumVars, batchVars, acctVars>>

\* The loop ran out without returning or throwing: throw lastError.
RetryLoopExit ==
    /\ rPc = "loop"
    /\ rAttempt > rOpts.maxAttempts
    /\ rPc' = "thrown"
    /\ rThrown' = IF rHist = <<>> THEN NoError ELSE rHist[Len(rHist)].error
    /\ UNCHANGED <<rOpts, rAttempt, rDelay, rHist, rLog>>
    /\ UNCHANGED <<injectVars, runVars, waitVars, shutVars, recVars, gasVars, sumVars, batchVars, acctVars>>

(***************************************************************************)
(* compare.ts: setERC20Balance, findBalanceSlot, detectProxyImplementation *)
(***************************************************************************)
\* The list without its last entry
COMMON_SLOTS_BUT_LAST ==
    << 0, 1, 2, 3, 4, 5, 6, 7, 8, 9, 10,
       11, 12, 13, 14, 15, 16, 17, 18, 19, 20,
       51, 52, 101, 102, 103, 104, 105,
       50, 100, 150, 200 >>

COMMON_SLOTS_FOR_BALANCE_SET ==
    << 0, 1, 2, 3, 4, 5, 6, 7, 8, 9, 10,
       11, 12, 13, 14, 15, 16, 17, 18, 19, 20,
       51, 52, 101, 102, 103, 104, 105,
       50, 100, 150, 200, 255 >>

totalSupplySlots == <<2, 3, 4, 5, 6, 7, 8>>
supplyBalSlots == <<0, 1, 2, 3, 4, 5>>
proxySlots == <<0, 1, 2, 3, 4, 5, 6, 7, 8, 9, 10, 51, 52, 100, 101, 102>>

\* testAmount of findBalanceSlot (123456789123456789123456789 in the source; its
\* leading digits here, TLC's integers being 32 bits wide).
testAmount == 123456789

Range(seq) == { seq[i] : i \in 1..Len(seq) }

\* Storage locations of the token contract the strategies address.
StdKey(slot) == <<"keccak(holder,slot)", slot>>
RevKey(slot) == <<"keccak(slot,holder)", slot>>
RawKey(slot) == <<"slot", slot>>
\* keccak(holder, ERC20_NAMESPACE_ID)
NsKey == <<"keccak(holder,namespace)", 0>>
\* A location none of the strategies addresses.
OtherKey == <<"other", 0>>

Keys ==
    { StdKey(s) : s \in Range(COMMON_SLOTS_FOR_BALANCE_SET) }
        \cup { RevKey(s) : s \in Range(proxySlots) }
        \cup { RawKey(s) : s \in Range(totalSupplySlots) }
        \cup { NsKey, OtherKey }

NoSlot == -1

\* The token contracts of the model.  bal: the location balanceOf(holder) reads;
\* mode: how balanceOf derives the balance from it ("half": a rebasing or fee token
\* that reports half the stored value); impl: which of the three PROXY_SLOTS holds
\* an implementation pointer (0: none); init: the holder's stored balance on the
\* chain; deal: the node implements the deal call of method 3.
Token(bal, mode, impl, init, deal) ==
    [bal |-> bal, mode |-> mode, impl |-> impl, init |-> init, deal |-> deal]

Tokens ==
    { Token(StdKey(0), "exact", 0, 0, FALSE),
      Token(StdKey(3), "exact", 0, 0, FALSE),
      Token(StdKey(3), "exact", 0, 5, FALSE),
      Token(StdKey(50), "exact", 2, 0, FALSE),
      Token(StdKey(3), "half", 0, 0, FALSE),
      Token(NsKey, "exact", 1, 0, FALSE),
      Token(RevKey(2), "exact", 1, 0, FALSE),
      Token(OtherKey, "exact", 0, 0, FALSE),
      Token(OtherKey, "exact", 3, 0, FALSE),
      Token(OtherKey, "exact", 0, 5, FALSE),
      Token(OtherKey, "exact", 0, 0, TRUE) }

Amounts == {2, 7}

\* The chain's state of the token at the forked block.
InitialStorage(t) == [k \in Keys |-> IF k = t.bal THEN t.init ELSE 0]

\* readContract balanceOf(holder)
balanceOf(t, st) ==
    IF t.mode = "half" THEN st[t.bal] \div 2 ELSE st[t.bal]

\* anvil_setStorageAt / setStorageAt
setStorageAt(st, key, value) == [st EXCEPT ![key] = value]

\* Method 1 verifies with balance >= amount
Verified(balance, amount) == balance >= amount
\* A test that any balance other than zero passes
VerifiedNonZero(balance, amount) == balance > 0

\* findBalanceSlot verifies with balance === testAmount
VerifiedExactly(balance, amount) == balance = amount

InjectIdle ==
    /\ tok = Token(OtherKey, "exact", 0, 0, FALSE)
    /\ storage = InitialStorage(tok)
    /\ nativeBal = 0
    /\ impersonating = FALSE
    /\ cache = NoSlot
    /\ iPc = "off"
    /\ iIdx = 1
    /\ iSub = 0
    /\ iAmount = 0
    /\ iImpl = FALSE
    /\ iFound = NoSlot
    /\ iRet = "none"
    /\ iPre = storage
    /\ iHadCache = NoSlot
    /\ iWrites = 0
    /\ iProbed = {}
    /\ iCalls = 0
    /\ iConfirmed = FALSE
    /\ iFaults = 0
    /\ iVerified = "none"

InjectInit ==
    /\ tok \in Tokens
    /\ storage = InitialStorage(tok)
    /\ nativeBal = 0
    /\ impersonating = FALSE
    /\ cache = NoSlot
    /\ iPc = "idle"
    /\ iIdx = 1
    /\ iSub = 0
    /\ iAmount = 0
    /\ iImpl = FALSE
    /\ iFound = NoSlot
    /\ iRet = "none"
    /\ iPre = storage
    /\ iHadCache = NoSlot
    /\ iWrites = 0
    /\ iProbed = {}
    /\ iCalls = 0
    /\ iConfirmed = FALSE
    /\ iFaults = 0
    /\ iVerified = "none"

\* A node call may throw only while the fault budget lasts.
MayFail(fault) == fault # "none" => iFaults < MaxFaults
Cost(fault) == IF fault = "none" THEN 0 ELSE 1

\* One step of setERC20Balance: where it goes, what it left in storage, the write
\* requests it sent and their keys, and the fault it met.
Step(pc, idx, st, writes, keys, fault) ==
    /\ iPc' = pc
    /\ iIdx' = idx
    /\ storage' = st
    /\ iWrites' = iWrites + writes
    /\ iProbed' = iProbed \cup keys
    /\ iFaults' = iFaults + Cost(fault)

\* The strategy at iPc read a balance >= amount.
VerifiedHere == iVerified' = IF iVerified = "none" THEN iPc ELSE iVerified

\* The step goes on without such a read.
Goto(pc, idx, st, writes, keys, fault) ==
    /\ Step(pc, idx, st, writes, keys, fault)
    /\ UNCHANGED iVerified

\* return true follows such a read in every strategy; return false follows none.
Return(value, st, writes, keys, fault) ==
    /\ Step("ret", 1, st, writes, keys, fault)
    /\ iRet' = value
    /\ IF value = "true" THEN VerifiedHere ELSE UNCHANGED iVerified

\* Every token taken for a proxy
detectProxyAlways(t, fault) == TRUE

\* detectProxyImplementation: the PROXY_SLOTS are read in order; a read that throws
\* is skipped.  The pointer is found iff the read of the slot holding it succeeds.
detectProxyImplementation(t, fault) ==
    t.impl # 0 /\ fault = "none"

\* setERC20Balance is entered (lines 738-750).  The fork was reset before.
InjectStart ==
    /\ iPc = "idle"
    /\ iCalls < MaxCalls
    /\ \E amount \in Amounts, fault \in {"none", "getStorageAt"} :
        /\ MayFail(fault)
        /\ iAmount' = amount
        /\ iImpl' = detectProxyImplementation(tok, fault)
        /\ iFaults' = iFaults + Cost(fault)
    /\ iPc' = "m1"
    /\ iIdx' = 1
    /\ iSub' = 0
    /\ iFound' = NoSlot
    /\ iRet' = "none"
    /\ iPre' = storage
    /\ iHadCache' = cache
    /\ iWrites' = 0
    /\ iProbed' = {}
    /\ iCalls' = iCalls + 1
    /\ iVerified' = "none"
    /\ UNCHANGED <<tok, storage, nativeBal, impersonating, cache, iConfirmed>>
    /\ UNCHANGED <<retryVars, runVars, waitVars, shutVars, recVars, gasVars, sumVars, batchVars, acctVars>>

\* forkToBlock between two simulations: the fork's state is the chain's again.
InjectForkReset ==
    /\ iPc = "ret"
    /\ iPc' = "idle"
    /\ storage' = InitialStorage(tok)
    /\ nativeBal' = 0
    /\ impersonating' = FALSE
    /\ iConfirmed' = (iConfirmed \/ (iRet = "true" /\ cache # NoSlot))
    /\ UNCHANGED <<tok, cache, iIdx, iSub, iAmount, iImpl, iFound, iRet, iPre, iHadCache,
                   iWrites, iProbed, iCalls, iFaults, iVerified>>
    /\ UNCHANGED <<retryVars, runVars, waitVars, shutVars, recVars, gasVars, sumVars, batchVars, acctVars>>

\* Method 1, one candidate slot (lines 755-799).
Method1Probe ==
    /\ iPc = "m1"
    /\ LET slot == COMMON_SLOTS_FOR_BALANCE_SET[iIdx]
           key == StdKey(slot)
           originalValue == storage[key]
           written == setStorageAt(storage, key, iAmount)
           restored == setStorageAt(written, key, originalValue)
           nextPc == IF iIdx < Len(COMMON_SLOTS_FOR_BALANCE_SET) THEN "m1" ELSE "m2"
           nextIdx == IF iIdx < Len(COMMON_SLOTS_FOR_BALANCE_SET) THEN iIdx + 1 ELSE 1
       IN  \E fault \in {"none", "getStorageAt", "write", "writeApplied", "balanceOf",
                         "restore", "restoreApplied"} :
            /\ MayFail(fault)
            /\ CASE fault = "getStorageAt" ->
                        Goto(nextPc, nextIdx, storage, 0, {}, fault)
                        /\ UNCHANGED <<cache, iRet>>
                 [] fault = "write" ->
                        Goto(nextPc, nextIdx, storage, 1, {key}, fault)
                        /\ UNCHANGED <<cache, iRet>>
                 [] fault \in {"writeApplied", "balanceOf"} ->
                        Goto(nextPc, nextIdx, written, 1, {key}, fault)
                        /\ UNCHANGED <<cache, iRet>>
                 [] OTHER ->
                        IF Verified(balanceOf(tok, written), iAmount)
                        THEN /\ fault = "none"
                             /\ cache' = slot
                             /\ Return("true", written, 1, {key}, fault)
                        ELSE /\ Goto(nextPc, nextIdx,
                                     IF fault = "restore" THEN written ELSE restored,
                                     2, {key}, fault)
                             /\ UNCHANGED <<cache, iRet>>
    /\ UNCHANGED <<tok, nativeBal, impersonating, iSub, iAmount, iImpl, iFound, iPre,
                   iHadCache, iCalls, iConfirmed>>
    /\ UNCHANGED <<retryVars, runVars, waitVars, shutVars, recVars, gasVars, sumVars, batchVars, acctVars>>

\* Method 2 without its try/catch: a node call that throws ends setERC20Balance.
Method2Uncaught ==
    /\ iPc = "m2"
    /\ \E fault \in {"none", "setBalance", "setBalanceApplied", "balanceOf"} :
        /\ MayFail(fault)
        /\ nativeBal' = IF fault = "setBalance" THEN nativeBal ELSE iAmount
        /\ IF fault # "none"
           THEN Return("threw", storage, 0, {}, fault)
           ELSE IF Verified(balanceOf(tok, storage), iAmount)
           THEN Return("true", storage, 0, {}, fault)
           ELSE Goto("m3", 1, storage, 0, {}, fault) /\ UNCHANGED iRet
    /\ UNCHANGED <<tok, impersonating, cache, iSub, iAmount, iImpl, iFound, iPre,
                   iHadCache, iCalls, iConfirmed>>
    /\ UNCHANGED <<retryVars, runVars, waitVars, shutVars, recVars, gasVars, sumVars, batchVars, acctVars>>

\* Method 2 (lines 806-828): hardhat_setBalance sets the holder's NATIVE balance.
Method2 ==
    /\ iPc = "m2"
    /\ \E fault \in {"none", "setBalance", "setBalanceApplied", "balanceOf"} :
        /\ MayFail(fault)
        /\ nativeBal' = IF fault = "setBalance" THEN nativeBal ELSE iAmount
        /\ IF fault = "none" /\ Verified(balanceOf(tok, storage), iAmount)
           THEN Return("true", storage, 0, {}, fault)
           ELSE Goto("m3", 1, storage, 0, {}, fault) /\ UNCHANGED iRet
    /\ UNCHANGED <<tok, impersonating, cache, iSub, iAmount, iImpl, iFound, iPre,
                   iHadCache, iCalls, iConfirmed>>
    /\ UNCHANGED <<retryVars, runVars, waitVars, shutVars, recVars, gasVars, sumVars, batchVars, acctVars>>

\* Method 3 (lines 831-880): impersonate, deal, verify, stop impersonating.
Method3 ==
    /\ iPc = "m3"
    /\ LET dealt == IF tok.deal THEN setStorageAt(storage, tok.bal, iAmount) ELSE storage
       IN  \E fault \in {"none", "impersonate", "deal", "balanceOf", "stopAfterSuccess",
                         "stopImpersonating"} :
            /\ MayFail(fault)
            /\ CASE fault = "impersonate" ->
                        /\ Goto("m4", 1, storage, 0, {}, fault)
                        /\ UNCHANGED <<impersonating, iRet>>
                 [] fault = "deal" ->
                        /\ Goto("m4", 1, storage, 0, {}, fault)
                        /\ impersonating' = FALSE
                        /\ UNCHANGED iRet
                 [] fault = "balanceOf" ->
                        /\ Goto("m4", 1, dealt, 0, {}, fault)
                        /\ impersonating' = FALSE
                        /\ UNCHANGED iRet
                 [] fault = "stopAfterSuccess" ->
                        \* line 870 throws: caught at 873, line 877 stops impersonating
                        /\ Verified(balanceOf(tok, dealt), iAmount)
                        /\ Step("m4", 1, dealt, 0, {}, fault)
                        /\ VerifiedHere
                        /\ impersonating' = FALSE
                        /\ UNCHANGED iRet
                 [] fault = "stopImpersonating" ->
                        \* line 877 throws: caught at 878
                        /\ ~Verified(balanceOf(tok, dealt), iAmount)
                        /\ Goto("m4", 1, dealt, 0, {}, fault)
                        /\ impersonating' = TRUE
                        /\ UNCHANGED iRet
                 [] OTHER ->
                        /\ impersonating' = FALSE
                        /\ IF Verified(balanceOf(tok, dealt), iAmount)
                           THEN Return("true", dealt, 0, {}, fault)
                           ELSE Goto("m4", 1, dealt, 0, {}, fault) /\ UNCHANGED iRet
    /\ UNCHANGED <<tok, nativeBal, cache, iSub, iAmount, iImpl, iFound, iPre,
                   iHadCache, iCalls, iConfirmed>>
    /\ UNCHANGED <<retryVars, runVars, waitVars, shutVars, recVars, gasVars, sumVars, batchVars, acctVars>>

\* Method 4 (lines 883-924): the namespaced balances slot; nothing is restored.
Method4 ==
    /\ iPc = "m4"
    /\ LET written == setStorageAt(storage, NsKey, iAmount)
       IN  \E fault \in {"none", "write", "writeApplied", "balanceOf"} :
            /\ MayFail(fault)
            /\ IF fault = "none" /\ Verified(balanceOf(tok, written), iAmount)
               THEN Return("true", written, 1, {NsKey}, fault)
               ELSE /\ Goto("m5find", 1, IF fault = "write" THEN storage ELSE written,
                            1, {NsKey}, fault)
                    /\ UNCHANGED iRet
    /\ UNCHANGED <<tok, nativeBal, impersonating, cache, iSub, iAmount, iImpl, iFound,
                   iPre, iHadCache, iCalls, iConfirmed>>
    /\ UNCHANGED <<retryVars, runVars, waitVars, shutVars, recVars, gasVars, sumVars, batchVars, acctVars>>

\* findBalanceSlot finds the token in the cache (lines 648-652).
FindBalanceSlotCached ==
    /\ iPc = "m5find"
    /\ iIdx = 1
    /\ cache # NoSlot
    /\ iFound' = cache
    /\ Goto("m5", 1, storage, 0, {}, "none")
    /\ UNCHANGED <<tok, nativeBal, impersonating, cache, iSub, iAmount, iImpl, iRet, iPre,
                   iHadCache, iCalls, iConfirmed>>
    /\ UNCHANGED <<retryVars, runVars, waitVars, shutVars, recVars, gasVars, sumVars, batchVars, acctVars>>

\* findBalanceSlot, one candidate slot (lines 658-701); after the last one it
\* returns null (line 704).
FindBalanceSlotProbe ==
    /\ iPc = "m5find"
    /\ iIdx > 1 \/ cache = NoSlot
    /\ LET slot == COMMON_SLOTS_FOR_BALANCE_SET[iIdx]
           key == StdKey(slot)
           written == setStorageAt(storage, key, testAmount)
           cleaned == setStorageAt(written, key, 0)
           nextPc == IF iIdx < Len(COMMON_SLOTS_FOR_BALANCE_SET) THEN "m5find" ELSE "m6"
           nextIdx == IF iIdx < Len(COMMON_SLOTS_FOR_BALANCE_SET) THEN iIdx + 1 ELSE 1
       IN  \E fault \in {"none", "write", "writeApplied", "balanceOf", "cleanup",
                         "cleanupApplied"} :
            /\ MayFail(fault)
            /\ CASE fault = "write" ->
                        /\ Goto(nextPc, nextIdx, storage, 1, {key}, fault)
                        /\ UNCHANGED <<cache, iFound>>
                 [] fault \in {"writeApplied", "balanceOf"} ->
                        /\ Goto(nextPc, nextIdx, written, 1, {key}, fault)
                        /\ UNCHANGED <<cache, iFound>>
                 [] OTHER ->
                        IF VerifiedExactly(balanceOf(tok, written), testAmount)
                        THEN /\ cache' = slot
                             /\ IF fault = "none"
                                THEN Goto("m5", 1, cleaned, 2, {key}, fault) /\ iFound' = slot
                                ELSE /\ Goto(nextPc, nextIdx,
                                             IF fault = "cleanup" THEN written ELSE cleaned,
                                             2, {key}, fault)
                                     /\ UNCHANGED iFound
                        ELSE /\ fault = "none"
                             /\ Goto(nextPc, nextIdx, written, 1, {key}, fault)
                             /\ UNCHANGED <<cache, iFound>>
    /\ UNCHANGED <<tok, nativeBal, impersonating, iSub, iAmount, iImpl, iRet, iPre,
                   iHadCache, iCalls, iConfirmed>>
    /\ UNCHANGED <<retryVars, runVars, waitVars, shutVars, recVars, gasVars, sumVars, batchVars, acctVars>>

\* Method 5 with the slot findBalanceSlot returned (lines 930-974).
Method5 ==
    /\ iPc = "m5"
    /\ LET key == StdKey(iFound)
           originalValue == storage[key]
           written == setStorageAt(storage, key, iAmount)
           restored == setStorageAt(written, key, originalValue)
       IN  \E fault \in {"none", "getStorageAt", "write", "writeApplied", "balanceOf",
                         "restore", "restoreApplied"} :
            /\ MayFail(fault)
            /\ CASE fault = "getStorageAt" ->
                        Goto("m6", 1, storage, 0, {}, fault) /\ UNCHANGED iRet
                 [] fault = "write" ->
                        Goto("m6", 1, storage, 1, {key}, fault) /\ UNCHANGED iRet
                 [] fault \in {"writeApplied", "balanceOf"} ->
                        Goto("m6", 1, written, 1, {key}, fault) /\ UNCHANGED iRet
                 [] OTHER ->
                        IF Verified(balanceOf(tok, written), iAmount)
                        THEN fault = "none" /\ Return("true", written, 1, {key}, fault)
                        ELSE /\ Goto("m6", 1, IF fault = "restore" THEN written ELSE restored,
                                     2, {key}, fault)
                             /\ UNCHANGED iRet
    /\ UNCHANGED <<tok, nativeBal, impersonating, cache, iSub, iAmount, iImpl, iFound,
                   iPre, iHadCache, iCalls, iConfirmed>>
    /\ UNCHANGED <<retryVars, runVars, waitVars, shutVars, recVars, gasVars, sumVars, batchVars, acctVars>>

\* Where method 6 goes after the supply slot at iIdx is given up.
AfterSupplySlot ==
    IF iIdx < Len(totalSupplySlots)
    THEN [pc |-> "m6", idx |-> iIdx + 1]
    ELSE [pc |-> IF iImpl THEN "m7" ELSE "fail", idx |-> 1]

\* Method 6, the write of one total-supply candidate (lines 982-990).
Method6Supply ==
    /\ iPc = "m6"
    /\ iSub = 0
    /\ LET key == RawKey(totalSupplySlots[iIdx])
           largeTotalSupply == iAmount * 1000
           written == setStorageAt(storage, key, largeTotalSupply)
       IN  \E fault \in {"none", "write", "writeApplied"} :
            /\ MayFail(fault)
            /\ IF fault = "none"
               THEN Goto("m6", iIdx, written, 1, {key}, fault) /\ iSub' = 1
               ELSE /\ Goto(AfterSupplySlot.pc, AfterSupplySlot.idx,
                            IF fault = "write" THEN storage ELSE written, 1, {key}, fault)
                    /\ iSub' = 0
    /\ UNCHANGED <<tok, nativeBal, impersonating, cache, iAmount, iImpl, iFound, iRet, iPre,
                   iHadCache, iCalls, iConfirmed>>
    /\ UNCHANGED <<retryVars, runVars, waitVars, shutVars, recVars, gasVars, sumVars, batchVars, acctVars>>

\* Method 6, one balance candidate under the current supply slot (lines 993-1016);
\* nothing is restored.
Method6Balance ==
    /\ iPc = "m6"
    /\ iSub >= 1
    /\ LET balSlot == supplyBalSlots[iSub]
           key == StdKey(balSlot)
           written == setStorageAt(storage, key, iAmount)
       IN  \E fault \in {"none", "write", "writeApplied", "balanceOf"} :
            /\ MayFail(fault)
            /\ IF fault # "none"
               THEN /\ Goto(AfterSupplySlot.pc, AfterSupplySlot.idx,
                            IF fault = "write" THEN storage ELSE written, 1, {key}, fault)
                    /\ iSub' = 0
                    /\ UNCHANGED <<cache, iRet>>
               ELSE IF Verified(balanceOf(tok, written), iAmount)
               THEN /\ cache' = balSlot
                    /\ Return("true", written, 1, {key}, fault)
                    /\ iSub' = 0
               ELSE IF iSub < Len(supplyBalSlots)
               THEN /\ Goto("m6", iIdx, written, 1, {key}, fault)
                    /\ iSub' = iSub + 1
                    /\ UNCHANGED <<cache, iRet>>
               ELSE /\ Goto(AfterSupplySlot.pc, AfterSupplySlot.idx, written, 1, {key}, fault)
                    /\ iSub' = 0
                    /\ UNCHANGED <<cache, iRet>>
    /\ UNCHANGED <<tok, nativeBal, impersonating, iAmount, iImpl, iFound, iPre,
                   iHadCache, iCalls, iConfirmed>>
    /\ UNCHANGED <<retryVars, runVars, waitVars, shutVars, recVars, gasVars, sumVars, batchVars, acctVars>>

\* Method 7, one slot with the reversed key (lines 1033-1076); only for a token
\* detected as a proxy.
Method7Probe ==
    /\ iPc = "m7"
    /\ LET slot == proxySlots[iIdx]
           key == RevKey(slot)
           originalValue == storage[key]
           written == setStorageAt(storage, key, iAmount)
           restored == setStorageAt(written, key, originalValue)
           nextPc == IF iIdx < Len(proxySlots) THEN "m7" ELSE "fail"
           nextIdx == IF iIdx < Len(proxySlots) THEN iIdx + 1 ELSE 1
       IN  \E fault \in {"none", "getStorageAt", "write", "writeApplied", "balanceOf",
                         "restore", "restoreApplied"} :
            /\ MayFail(fault)
            /\ CASE fault = "getStorageAt" ->
                        Goto(nextPc, nextIdx, storage, 0, {}, fault)
                        /\ UNCHANGED <<cache, iRet>>
                 [] fault = "write" ->
                        Goto(nextPc, nextIdx, storage, 1, {key}, fault)
                        /\ UNCHANGED <<cache, iRet>>
                 [] fault \in {"writeApplied", "balanceOf"} ->
                        Goto(nextPc, nextIdx, written, 1, {key}, fault)
                        /\ UNCHANGED <<cache, iRet>>
                 [] OTHER ->
                        IF Verified(balanceOf(tok, written), iAmount)
                        THEN /\ fault = "none"
                             /\ cache' = slot
                             /\ Return("true", written, 1, {key}, fault)
                        ELSE /\ Goto(nextPc, nextIdx,
                                     IF fault = "restore" THEN written ELSE restored,
                                     2, {key}, fault)
                             /\ UNCHANGED <<cache, iRet>>
    /\ UNCHANGED <<tok, nativeBal, impersonating, iSub, iAmount, iImpl, iFound, iPre,
                   iHadCache, iCalls, iConfirmed>>
    /\ UNCHANGED <<retryVars, runVars, waitVars, shutVars, recVars, gasVars, sumVars, batchVars, acctVars>>

\* All strategies exhausted (lines 1082-1083).
InjectFails ==
    /\ iPc = "fail"
    /\ Return("false", storage, 0, {}, "none")
    /\ UNCHANGED <<tok, nativeBal, impersonating, cache, iSub, iAmount, iImpl, iFound,
                   iPre, iHadCache, iCalls, iConfirmed>>
    /\ UNCHANGED <<retryVars, runVars, waitVars, shutVars, recVars, gasVars, sumVars, batchVars, acctVars>>

setERC20Balance ==
    \/ InjectStart
    \/ Method1Probe
    \/ Method2
    \/ Method3
    \/ Method4
    \/ FindBalanceSlotCached
    \/ FindBalanceSlotProbe
    \/ Method5
    \/ Method6Supply
    \/ Method6Balance
    \/ Method7Probe
    \/ InjectFails

InjectNext == setERC20Balance \/ InjectForkReset

RetryNext == RetryFnReturns \/ RetryFnThrows \/ RetryLoopExit

(***************************************************************************)
(* compare.ts: runComparison, forkToBlock, simulateTransaction;            *)
(* client.ts: resetForkWithRetry, executeTransactionWithRetry              *)
(***************************************************************************)
MaxPairs == 1
MaxProviders == 2

Providers == 1..MaxProviders

RESET_MAX_ATTEMPTS == 5
TX_MAX_ATTEMPTS == 3
bufferMultiplier == 10
\* 2^256 - 1 in the source; the largest integer of the model here.
MAX_UINT256 == 2147483647
\* gasPrice is 10^9 wei (line 581)
GasPriceExponent == 9
tokenOutDecimals == 6
gasUsedBySwap == 100000

AmountsIn == {5}
MonPrices == {0, 2500}
\* What executing a quote's transaction does on the fork: the target has no code,
\* the swap reverts, or it changes the test account's output-token balance.
NoCode == [kind |-> "nocode", delta |-> 0]
Reverts == [kind |-> "revert", delta |-> 0]
Swaps(delta) == [kind |-> "swap", delta |-> delta]
Effects == {NoCode, Reverts, Swaps(200000), Swaps(300000)}

RECURSIVE Pow10(_)
Pow10(n) == IF n = 0 THEN 1 ELSE 10 * Pow10(n - 1)

(***************************************************************************)
(* Unbounded naturals (BigInt) as sequences of limbs, least significant     *)
(* first, without leading zero limbs; zero is the empty sequence.           *)
(***************************************************************************)
LimbBase == 32768

RECURSIVE BNorm(_)
BNorm(x) ==
    IF x = <<>> THEN <<>>
    ELSE IF x[Len(x)] = 0 THEN BNorm(SubSeq(x, 1, Len(x) - 1))
    ELSE x

RECURSIVE BFromInt(_)
BFromInt(n) == IF n = 0 THEN <<>> ELSE <<n % LimbBase>> \o BFromInt(n \div LimbBase)

RECURSIVE BToInt(_)
BToInt(x) == IF x = <<>> THEN 0 ELSE x[1] + LimbBase * BToInt(Tail(x))

BOne == <<1>>

RECURSIVE BAddC(_, _, _)
BAddC(x, y, carry) ==
    IF x = <<>> /\ y = <<>>
    THEN (IF carry = 0 THEN <<>> ELSE <<carry>>)
    ELSE LET a == IF x = <<>> THEN 0 ELSE x[1]
             b == IF y = <<>> THEN 0 ELSE y[1]
             sum == a + b + carry
         IN  <<sum % LimbBase>>
                 \o BAddC(IF x = <<>> THEN <<>> ELSE Tail(x),
                          IF y = <<>> THEN <<>> ELSE Tail(y),
                          sum \div LimbBase)

BAdd(x, y) == BAddC(x, y, 0)

\* x - y - borrow for x >= y + borrow, limb by limb
RECURSIVE BSubB(_, _, _)
BSubB(x, y, borrow) ==
    IF x = <<>> THEN <<>>
    ELSE LET b == (IF y = <<>> THEN 0 ELSE y[1]) + borrow
             under == x[1] < b
         IN  <<IF under THEN x[1] + LimbBase - b ELSE x[1] - b>>
                 \o BSubB(Tail(x), IF y = <<>> THEN <<>> ELSE Tail(y),
                          IF under THEN 1 ELSE 0)

BSub(x, y) == BNorm(BSubB(x, y, 0))

\* x < y, for sequences of equal length compared from the most significant limb
RECURSIVE BLessFrom(_, _, _)
BLessFrom(x, y, i) ==
    IF i = 0 THEN FALSE
    ELSE IF x[i] # y[i] THEN x[i] < y[i]
    ELSE BLessFrom(x, y, i - 1)

BLess(x, y) ==
    IF Len(x) # Len(y) THEN Len(x) < Len(y) ELSE BLessFrom(x, y, Len(x))

RECURSIVE BMulSmall(_, _, _)
BMulSmall(x, k, carry) ==
    IF x = <<>>
    THEN (IF carry = 0 THEN <<>> ELSE <<carry>>)
    ELSE LET product == x[1] * k + carry
         IN  <<product % LimbBase>> \o BMulSmall(Tail(x), k, product \div LimbBase)

RECURSIVE BMul(_, _)
BMul(x, y) ==
    IF x = <<>> \/ y = <<>> THEN <<>>
    ELSE BNorm(BAdd(BMulSmall(x, y[1], 0), <<0>> \o BMul(x, Tail(y))))

BDouble(x) == BAdd(x, x)

RECURSIVE BZeros(_)
BZeros(n) == IF n = 0 THEN <<>> ELSE <<0>> \o BZeros(n - 1)

\* x * 2^n
BShiftLeft(x, n) ==
    IF x = <<>> THEN <<>> ELSE BZeros(n \div 15) \o BMulSmall(x, 2 ^ (n % 15), 0)

\* floor(x / 2^n)
BShiftRight(x, n) ==
    LET whole == n \div 15
        y == IF whole >= Len(x) THEN <<>> ELSE SubSeq(x, whole + 1, Len(x))
        k == 2 ^ (n % 15)
    IN  BNorm([i \in 1..Len(y) |->
                 (y[i] \div k) + (IF i < Len(y) THEN (y[i + 1] % k) * (LimbBase \div k) ELSE 0)])

\* The largest digit k in lo..hi with k * den <= r
RECURSIVE BDigit(_, _, _, _)
BDigit(r, den, lo, hi) ==
    IF lo = hi THEN lo
    ELSE LET mid == (lo + hi + 1) \div 2
         IN  IF BLess(r, BNorm(BMulSmall(den, mid, 0)))
             THEN BDigit(r, den, lo, mid - 1)
             ELSE BDigit(r, den, mid, hi)

\* Long division, from the most significant limb n[i] down: q is the quotient so
\* far, r the remainder.
RECURSIVE BDivModFrom(_, _, _, _, _)
BDivModFrom(n, den, i, q, r) ==
    IF i = 0 THEN [q |-> BNorm(q), r |-> r]
    ELSE LET r1 == BNorm(<<n[i]>> \o r)
             k == BDigit(r1, den, 0, LimbBase - 1)
         IN  BDivModFrom(n, den, i - 1, <<k>> \o q, BSub(r1, BNorm(BMulSmall(den, k, 0))))

BDivMod(n, den) == BDivModFrom(n, den, Len(n), <<>>, <<>>)

RECURSIVE IntBitLen(_)
IntBitLen(n) == IF n = 0 THEN 0 ELSE 1 + IntBitLen(n \div 2)

BBitLen(x) == IF x = <<>> THEN 0 ELSE 15 * (Len(x) - 1) + IntBitLen(x[Len(x)])

BIsOdd(x) == x # <<>> /\ x[1] % 2 = 1

RECURSIVE BPow10(_)
BPow10(n) == IF n = 0 THEN BOne ELSE BMulSmall(BPow10(n - 1), 10, 0)

(***************************************************************************)
(* JavaScript numbers: IEEE 754 doubles.  A positive double is m * 2^e     *)
(* with a mantissa m of 53 bits; every operation rounds the exact result    *)
(* to the nearest such value, ties to the even mantissa.                    *)
(***************************************************************************)
MantissaBits == 53

Double(m, e) == [m |-> m, e |-> e]
DZero == Double(<<>>, 0)

\* The double nearest to num / den * 2^e (num, den > 0): the quotient is taken
\* to 53 bits and rounded by the remainder.
RoundRatio(num, den, e) ==
    LET d == BBitLen(num) - BBitLen(den)
        num1 == IF d < 0 THEN BShiftLeft(num, -d) ELSE num
        den1 == IF d > 0 THEN BShiftLeft(den, d) ELSE den
        shift == IF BLess(num1, den1) THEN MantissaBits ELSE MantissaBits - 1
        qr == BDivMod(BShiftLeft(num1, shift), den1)
        twice == BDouble(qr.r)
        up == IF BLess(den1, twice) THEN TRUE
              ELSE IF BLess(twice, den1) THEN FALSE
              ELSE BIsOdd(qr.q)
    IN  Double(IF up THEN BAdd(qr.q, BOne) ELSE qr.q, e + d - shift)

\* The double nearest to n * 2^e: the bits of n beyond the 53rd are rounded off.
RoundShift(n, e) ==
    LET s == BBitLen(n) - MantissaBits
        q == BShiftRight(n, s)
        r == BSub(n, BShiftLeft(q, s))
        half == BShiftLeft(BOne, s - 1)
        up == IF BLess(half, r) THEN TRUE
              ELSE IF BLess(r, half) THEN FALSE
              ELSE BIsOdd(q)
    IN  IF s <= 0 THEN Double(n, e)
        ELSE Double(IF up THEN BAdd(q, BOne) ELSE q, e + s)

\* Number(bigint)
DFromBig(n) == RoundShift(n, 0)
\* x / y
DDiv(x, y) == IF x.m = <<>> THEN DZero ELSE RoundRatio(x.m, y.m, x.e - y.e)
\* x * y
DMul(x, y) == RoundShift(BMul(x.m, y.m), x.e + y.e)
\* BigInt(Math.floor(x))
DFloor(x) == IF x.e >= 0 THEN BShiftLeft(x.m, x.e) ELSE BShiftRight(x.m, -x.e)

\* calculateGasCostInTokenOut (lines 578-602): the wei are exact (BigInt); the
\* division by 10 ** 18 and the two products are products and quotients of doubles.
\* "0" when the token has no price.
gasCostInDoubles(gasUsed, monPriceInToken, decimals) ==
    LET gasPrice == BFromInt(Pow10(GasPriceExponent))
        gasCostInWei == BMul(BFromInt(gasUsed), gasPrice)
        gasCostInMON == DDiv(DFromBig(gasCostInWei), DFromBig(BPow10(18)))
        gasCostInTokenOut == DMul(gasCostInMON, DFromBig(BFromInt(monPriceInToken)))
        gasCostInTokenOutWei == DFloor(DMul(gasCostInTokenOut, DFromBig(BPow10(decimals))))
    IN  IF monPriceInToken = 0 THEN 0 ELSE BToInt(gasCostInTokenOutWei)

\* The results for the receipts and prices of a run, computed once.
gasCostOfRun ==
    [price \in MonPrices |-> gasCostInDoubles(gasUsedBySwap, price, tokenOutDecimals)]

calculateGasCostInTokenOut(gasUsed, monPriceInToken, decimals) ==
    IF gasUsed = gasUsedBySwap /\ monPriceInToken \in MonPrices /\ decimals = tokenOutDecimals
    THEN gasCostOfRun[monPriceInToken]
    ELSE gasCostInDoubles(gasUsed, monPriceInToken, decimals)

calculateNetAmountUnclamped(amountOut, gasCostInTokenOut) ==
    amountOut - gasCostInTokenOut

calculateNetAmount(amountOut, gasCostInTokenOut) ==
    LET netAmount == amountOut - gasCostInTokenOut
    IN  IF netAmount < 0 THEN 0 ELSE netAmount

NoGas == -1
SimResult(status, amountOut, error, gasUsed) ==
    [status |-> status, amountOut |-> amountOut, error |-> error, gasUsed |-> gasUsed]

\* The initial value of simulationResult (lines 2742-2746).
SkippedResult == SimResult("skipped", 0, "Simulation skipped", NoGas)

\* The catch of simulateTransaction around its whole body (lines 1332-1339).
OuterCatch(error) == SimResult("error", 0, error.message, NoGas)

\* The pair's input token: the native token, or an ERC20 token of which the test
\* account holds `held` on the chain.
NativeToken == [native |-> TRUE, held |-> 0]
InputTokens == {NativeToken} \cup { [native |-> FALSE, held |-> h] : h \in {0} \cup AmountsIn }

\* fetchQuote's promise: pending, or settled with the fields runComparison reads.
PendingQuote ==
    [settled |-> FALSE, status |-> 0, txData |-> FALSE, blockNumber |-> 0,
     simulationStatus |-> "pending", effect |-> NoCode, amountIn |-> 0]

\* Lines 1403-1428: a response was received and parsed.
FetchedQuote(p, status, txData, effect, amountIn) ==
    [settled |-> TRUE, status |-> status, txData |-> txData, blockNumber |-> 10 + p,
     simulationStatus |-> "pending", effect |-> effect, amountIn |-> amountIn]

\* Lines 1429-1456: the fetch or the parsing threw.
FailedQuote ==
    [settled |-> TRUE, status |-> 0, txData |-> FALSE, blockNumber |-> 0,
     simulationStatus |-> "error", effect |-> NoCode, amountIn |-> 0]

QuoteOutcomes(p) ==
    { FetchedQuote(p, 200, TRUE, e, a) : e \in Effects, a \in AmountsIn }
        \cup { FetchedQuote(p, 200, FALSE, NoCode, a) : a \in AmountsIn }
        \cup { FetchedQuote(p, 500, TRUE, Reverts, a) : a \in AmountsIn }

\* await Promise.all(...) of line 2717 resumes
AnyQuoteSettled == \E p \in Providers : quoteResults[p].settled
AllQuotesSettled == \A p \in Providers : quoteResults[p].settled

\* The row with the quote's own simulationStatus left in place
RowKeepingQuoteStatus(pr, p, q, r, gasCost, net) ==
    [pair |-> pr, provider |-> p, status |-> q.status,
     simulationStatus |-> q.simulationStatus, simulationOutput |-> r.amountOut,
     simulationError |-> r.error, gasUsed |-> r.gasUsed,
     gasCostInTokenOut |-> gasCost, netAmount |-> net]

\* Lines 2818-2833 and 2838-2844: the row of a provider; the simulation's status
\* replaces the one fetchQuote set.
Row(pr, p, q, r, gasCost, net) ==
    [pair |-> pr, provider |-> p, status |-> q.status,
     simulationStatus |-> r.status, simulationOutput |-> r.amountOut,
     simulationError |-> r.error, gasUsed |-> r.gasUsed,
     gasCostInTokenOut |-> gasCost, netAmount |-> net]

NoReceipt == [status |-> "none", gasUsed |-> NoGas]
NewSim == [calls |-> 0, injectRet |-> "none", pre |-> 0, post |-> 0, mined |-> 0,
           approvals |-> 0, submits |-> 0, active |-> {}]

RunIdle ==
    /\ simulation = FALSE
    /\ monPrice = 0
    /\ runPc = "off"
    /\ pair = 1
    /\ tokenIn = NativeToken
    /\ quoteResults = [p \in Providers |-> PendingQuote]
    /\ pIdx = 1
    /\ results = <<>>
    /\ allResults = <<>>
    /\ emitted = <<>>
    /\ forkBlock = 0
    /\ outBal = 0
    /\ inBal = 0
    /\ allowance = 0
    /\ sPc = "none"
    /\ resetAttempt = 1
    /\ resetErrors = <<>>
    /\ currentBlock = 0
    /\ txAttempt = 1
    /\ initialBalance = 0
    /\ receipt = NoReceipt
    /\ simulationResult = SkippedResult
    /\ sLog = <<>>
    /\ sim = NewSim
    /\ faults = 0

\* runComparison reaches its loop over the pairs (line 2680).
RunInit ==
    /\ simulation \in BOOLEAN
    /\ monPrice \in MonPrices
    /\ runPc = "start"
    /\ pair = 1
    /\ tokenIn = NativeToken
    /\ quoteResults = [p \in Providers |-> PendingQuote]
    /\ pIdx = 1
    /\ results = <<>>
    /\ allResults = <<>>
    /\ emitted = <<>>
    /\ forkBlock = 0
    /\ outBal = 0
    /\ inBal = 0
    /\ allowance = 0
    /\ sPc = "none"
    /\ resetAttempt = 1
    /\ resetErrors = <<>>
    /\ currentBlock = 0
    /\ txAttempt = 1
    /\ initialBalance = 0
    /\ receipt = NoReceipt
    /\ simulationResult = SkippedResult
    /\ sLog = <<>>
    /\ sim = NewSim
    /\ faults = 0

\* An operation of the run may meet a node failure while the budget lasts; the
\* retries of one operation count once.
CanFail == faults < MaxFaults

forkVars == <<forkBlock, outBal, inBal, allowance>>
simLocals == <<sPc, resetAttempt, resetErrors, currentBlock, txAttempt, initialBalance, receipt, simulationResult>>
runConfig == <<simulation, monPrice>>

\* Step 1 (lines 2715-2722): the quotes of all aggregators are requested at once.
FetchQuotes ==
    /\ runPc = "start"
    /\ runPc' = "fetch"
    /\ tokenIn' \in InputTokens
    /\ quoteResults' = [p \in Providers |-> PendingQuote]
    /\ UNCHANGED <<pair, pIdx, results, allResults, emitted, sLog, sim, faults>>
    /\ UNCHANGED <<runConfig, forkVars, simLocals>>
    /\ UNCHANGED <<retryVars, injectVars, waitVars, shutVars, recVars, gasVars, sumVars, batchVars, acctVars>>

\* One fetchQuote promise settles.
QuoteSettles(p) ==
    /\ runPc = "fetch"
    /\ ~quoteResults[p].settled
    /\ \/ \E q \in QuoteOutcomes(p) :
            /\ quoteResults' = [quoteResults EXCEPT ![p] = q]
            /\ UNCHANGED faults
       \/ /\ CanFail
          /\ quoteResults' = [quoteResults EXCEPT ![p] = FailedQuote]
          /\ faults' = faults + 1
    /\ UNCHANGED <<runPc, pair, tokenIn, pIdx, results, allResults, emitted, sLog, sim>>
    /\ UNCHANGED <<runConfig, forkVars, simLocals>>
    /\ UNCHANGED <<retryVars, injectVars, waitVars, shutVars, recVars, gasVars, sumVars, batchVars, acctVars>>

\* The test of line 2734
NeedsForkNever(q) == FALSE
NeedsFork(q) == q.blockNumber # 0

\* The provider's cycle begins (lines 2730-2736): reset first when the quote has a block.
BeginCycle(p, active) ==
    /\ pIdx' = p
    /\ sPc' = IF NeedsFork(quoteResults[p]) THEN "reset" ELSE "dispatch"
    /\ resetAttempt' = 1
    /\ resetErrors' = <<>>
    /\ currentBlock' = 0
    /\ txAttempt' = 1
    /\ initialBalance' = 0
    /\ receipt' = NoReceipt
    /\ simulationResult' = SkippedResult
    /\ sLog' = <<>>
    /\ sim' = [NewSim EXCEPT !.active = active \cup {p}]

\* Promise.all has resolved: step 2 (lines 2724-2730), or the rows without
\* simulation (lines 2835-2852).
QuotesDone ==
    /\ runPc = "fetch"
    /\ AllQuotesSettled
    /\ IF simulation
       THEN /\ runPc' = "sim"
            /\ BeginCycle(1, sim.active)
            /\ UNCHANGED results
       ELSE /\ runPc' = "collect"
            /\ results' = [p \in Providers |->
                            Row(pair, p, quoteResults[p],
                                SimResult("skipped", 0, "Simulation disabled", NoGas), 0, 0)]
            /\ UNCHANGED <<pIdx, simLocals, sLog, sim>>
    /\ UNCHANGED <<pair, tokenIn, quoteResults, allResults, emitted, faults>>
    /\ UNCHANGED <<runConfig, forkVars>>
    /\ UNCHANGED <<retryVars, injectVars, waitVars, shutVars, recVars, gasVars, sumVars, batchVars, acctVars>>

ReadErrors == { Err(MsgRequestTimeout) }
ResetErrors == { Err(MsgRequestTimeout), Err(MsgResetTimedOut), Err(MsgBlockNotFound) }
TxErrors == { Err(MsgRequestTimeout), Err(MsgReceiptTimedOut), Err(MsgReverted) }

\* What the node was asked to do in the provider's cycle, in order: a fork reset
\* that took effect, or a submission of the swap with the error it ended in.
LogReset == [ev |-> "reset", msg |-> "", mined |-> FALSE]
LogSubmit(msg, mined) == [ev |-> "submit", msg |-> msg, mined |-> mined]

\* anvil_reset took effect: the fork is the chain at `block` again.
ForkResetTo(block) ==
    /\ forkBlock' = block
    /\ outBal' = 0
    /\ inBal' = tokenIn.held
    /\ allowance' = 0

\* runComparison throws: main's catch logs and calls process.exit(1) (lines 2965-2974).
Abort == runPc' = "aborted"

\* simulateTransaction returns r; fn of the retry wrapper (lines 2757-2789) did not
\* throw, so retryWithBackoff returns r at once.
SimReturns(r) ==
    /\ simulationResult' = r
    /\ sPc' = "record"

\* The node is started with --block-time 1 (start-fork.sh): it mines a block every
\* second, whether or not a transaction is pending.
BlockTime == 1
\* forkToBlock sleeps between the reset and its block-number query (line 1155).
ForkSleep == 1000
\* The blocks the node may have mined while the client slept for ms milliseconds.
MinedDuring(ms) == 0..(ms \div (BlockTime * 1000))

\* forkToBlock (lines 1147-1163): one attempt of resetForkWithRetry (lines 74-102),
\* after the last one the sleep and getBlockNumber.
ResetAttempt ==
    /\ runPc = "sim"
    /\ sPc = "reset"
    /\ LET block == quoteResults[pIdx].blockNumber
       IN  \/ /\ ForkResetTo(block)
              /\ sLog' = Append(sLog, LogReset)
              /\ \/ /\ sPc' = "dispatch"
                    /\ \E mined \in MinedDuring(ForkSleep) : currentBlock' = block + mined
                    /\ UNCHANGED <<runPc, faults>>
                 \/ /\ CanFail
                    /\ faults' = faults + 1
                    /\ Abort
                    /\ UNCHANGED <<sPc, currentBlock>>
              /\ resetErrors' = <<>>
              /\ UNCHANGED resetAttempt
           \/ \E error \in ResetErrors :
              /\ resetAttempt = 1 => CanFail
              /\ faults' = IF resetAttempt = 1 THEN faults + 1 ELSE faults
              /\ UNCHANGED <<forkVars, sLog>>
              /\ IF StopRetrying(resetAttempt, RESET_MAX_ATTEMPTS, ShouldRetry("reset", error))
                 THEN Abort /\ UNCHANGED resetAttempt
                 ELSE resetAttempt' = resetAttempt + 1 /\ UNCHANGED runPc
              /\ resetErrors' = Append(resetErrors, error)
              /\ UNCHANGED <<sPc, currentBlock>>
    /\ UNCHANGED <<pair, tokenIn, quoteResults, pIdx, results, allResults, emitted, sim>>
    /\ UNCHANGED <<runConfig, txAttempt, initialBalance, receipt, simulationResult>>
    /\ UNCHANGED <<retryVars, injectVars, waitVars, shutVars, recVars, gasVars, sumVars, batchVars, acctVars>>

\* Lines 2742-2804: simulate, or report why not.
SimDispatch ==
    /\ runPc = "sim"
    /\ sPc = "dispatch"
    /\ LET q == quoteResults[pIdx]
       IN  IF q.status = 200 /\ q.txData
           THEN /\ sPc' = "fund"
                /\ sim' = [sim EXCEPT !.calls = @ + 1]
                /\ UNCHANGED simulationResult
           ELSE IF ~q.txData
           THEN /\ SimReturns(SimResult("error", 0, "No transaction data", NoGas))
                /\ UNCHANGED sim
           ELSE /\ SimReturns(SkippedResult)
                /\ UNCHANGED sim
    /\ UNCHANGED <<runPc, pair, tokenIn, quoteResults, pIdx, results, allResults, emitted,
                   sLog, faults>>
    /\ UNCHANGED <<runConfig, forkVars, resetAttempt, resetErrors, currentBlock, txAttempt, initialBalance, receipt>>
    /\ UNCHANGED <<retryVars, injectVars, waitVars, shutVars, recVars, gasVars, sumVars, batchVars, acctVars>>

\* The test of line 1203
FundingFailedIgnoringResult(balanceSetSuccess, actualBalance, amountIn) ==
    actualBalance < amountIn

FundingFailed(balanceSetSuccess, actualBalance, amountIn) ==
    ~balanceSetSuccess \/ actualBalance < amountIn

\* 1000 native tokens, in the unit in which calculatedBalance is amountIn * 1000000.
minBalance == 1000000000

\* simulateTransaction, "Set up balances" (lines 1174-1211).  setERC20Balance is
\* summarised by its result: true with the buffered balance in place, or false.
Fund ==
    /\ runPc = "sim"
    /\ sPc = "fund"
    /\ LET amountIn == quoteResults[pIdx].amountIn
           calculatedBalance == amountIn * 1000000
           bufferedAmount == amountIn * bufferMultiplier
       IN  IF tokenIn.native
           THEN /\ UNCHANGED sim
                /\ \/ /\ inBal' = Max(calculatedBalance, minBalance)
                      /\ sPc' = "snapshot"
                      /\ UNCHANGED <<simulationResult, faults>>
                   \/ \E error \in ReadErrors, applied \in BOOLEAN :
                      /\ CanFail
                      /\ faults' = faults + 1
                      /\ inBal' = IF applied THEN Max(calculatedBalance, minBalance) ELSE inBal
                      /\ SimReturns(OuterCatch(error))
           ELSE \E balanceSetSuccess \in BOOLEAN :
                /\ inBal' = IF balanceSetSuccess THEN bufferedAmount ELSE inBal
                /\ sim' = [sim EXCEPT !.injectRet = IF balanceSetSuccess THEN "true" ELSE "false"]
                /\ \/ /\ UNCHANGED faults
                      /\ IF FundingFailed(balanceSetSuccess, inBal', amountIn)
                         THEN SimReturns(SimResult("error", 0, MsgFailedSetBalance, NoGas))
                         ELSE sPc' = "approve" /\ UNCHANGED simulationResult
                   \/ \E error \in ReadErrors :
                      /\ CanFail
                      /\ faults' = faults + 1
                      /\ SimReturns(OuterCatch(error))
    /\ UNCHANGED <<runPc, pair, tokenIn, quoteResults, pIdx, results, allResults, emitted,
                   sLog>>
    /\ UNCHANGED <<runConfig, forkBlock, outBal, allowance, resetAttempt, resetErrors, currentBlock, txAttempt,
                   initialBalance, receipt>>
    /\ UNCHANGED <<retryVars, injectVars, waitVars, shutVars, recVars, gasVars, sumVars, batchVars, acctVars>>

\* approveERC20 and the allowance read (lines 1213-1226).
Approve ==
    /\ runPc = "sim"
    /\ sPc = "approve"
    /\ sim' = [sim EXCEPT !.approvals = @ + 1]
    /\ \/ /\ allowance' \in {MAX_UINT256, allowance}
          /\ sPc' = "snapshot"
          /\ UNCHANGED <<simulationResult, faults>>
       \/ \E error \in ReadErrors, applied \in BOOLEAN :
          /\ CanFail
          /\ faults' = faults + 1
          /\ allowance' = IF applied THEN MAX_UINT256 ELSE allowance
          /\ SimReturns(OuterCatch(error))
    /\ UNCHANGED <<runPc, pair, tokenIn, quoteResults, pIdx, results, allResults, emitted,
                   sLog>>
    /\ UNCHANGED <<runConfig, forkBlock, outBal, inBal, resetAttempt, resetErrors, currentBlock, txAttempt,
                   initialBalance, receipt>>
    /\ UNCHANGED <<retryVars, injectVars, waitVars, shutVars, recVars, gasVars, sumVars, batchVars, acctVars>>

\* getTokenBalance before the swap (lines 1232-1234).
Snapshot ==
    /\ runPc = "sim"
    /\ sPc = "snapshot"
    /\ \/ /\ initialBalance' = outBal
          /\ sim' = [sim EXCEPT !.pre = outBal]
          /\ sPc' = "code"
          /\ UNCHANGED <<simulationResult, faults>>
       \/ \E error \in ReadErrors :
          /\ CanFail
          /\ faults' = faults + 1
          /\ SimReturns(OuterCatch(error))
          /\ UNCHANGED <<initialBalance, sim>>
    /\ UNCHANGED <<runPc, pair, tokenIn, quoteResults, pIdx, results, allResults, emitted,
                   sLog>>
    /\ UNCHANGED <<runConfig, forkVars, resetAttempt, resetErrors, currentBlock, txAttempt, receipt>>
    /\ UNCHANGED <<retryVars, injectVars, waitVars, shutVars, recVars, gasVars, sumVars, batchVars, acctVars>>

\* What getBytecode answers for the swap target: nothing ("" stands for undefined)
\* or "0x" where no contract is deployed, the contract's code otherwise.
DeployedCode == "0x6080"
BytecodeAt(effect) == IF effect.kind = "nocode" THEN {"", "0x"} ELSE {DeployedCode}

\* The test of line 1243 without its second half
TargetMissingOnlyEmpty(targetCode) == targetCode = ""

\* The test of line 1243: !targetCode || targetCode === "0x"
TargetMissing(targetCode) == targetCode = "" \/ targetCode = "0x"

\* getBytecode of the swap target (lines 1240-1245).
CodeCheck ==
    /\ runPc = "sim"
    /\ sPc = "code"
    /\ \/ /\ UNCHANGED faults
          /\ \E targetCode \in BytecodeAt(quoteResults[pIdx].effect) :
                IF TargetMissing(targetCode)
                THEN SimReturns(OuterCatch(Err(MsgNoTarget)))
                ELSE sPc' = "submit" /\ UNCHANGED simulationResult
       \/ \E error \in ReadErrors :
          /\ CanFail
          /\ faults' = faults + 1
          /\ SimReturns(OuterCatch(error))
    /\ UNCHANGED <<runPc, pair, tokenIn, quoteResults, pIdx, results, allResults, emitted, sim,
                   sLog>>
    /\ UNCHANGED <<runConfig, forkVars, resetAttempt, resetErrors, currentBlock, txAttempt, initialBalance, receipt>>
    /\ UNCHANGED <<retryVars, injectVars, waitVars, shutVars, recVars, gasVars, sumVars, batchVars, acctVars>>

\* The test of line 1275 (on the message as it is, not lower-cased).
IsTimeoutError(error) ==
    "timeout" \in Exact[error.message] \/ "timed out" \in Exact[error.message]

\* The node mines the swap transaction.
MinedReceipt(effect) ==
    [status |-> IF effect.kind = "revert" THEN "reverted" ELSE "success",
     gasUsed |-> gasUsedBySwap]
MinedBalance(effect, balance) ==
    IF effect.kind = "revert" THEN balance ELSE balance + effect.delta

\* The simulation-level wrapper of runComparison (line 2782).
SIM_MAX_ATTEMPTS == 3

\* simulateTransaction without the try/catch around its body: the timeout rethrown
\* at line 1276 leaves the function.
RethrownTimeoutEscapes(error) == [threw |-> TRUE, result |-> OuterCatch(error)]

\* Line 1276 rethrows a timeout "for higher-level retry", but the throw is inside
\* the try of line 1173: the catch of lines 1332-1339 turns it into a result and
\* simulateTransaction returns.
RethrownTimeout(error) == [threw |-> FALSE, result |-> OuterCatch(error)]

\* One attempt of executeTransactionWithRetry (lines 116-144 of client.ts) and, when
\* it gives up, the catch of simulateTransaction (lines 1266-1284).  A submission
\* that fails may have reached the node, which then mines it all the same.  Were
\* simulateTransaction to throw, fn of the wrapper (lines 2757-2789) would reset the
\* fork and throw again, and retryWithBackoff would call simulateTransaction anew
\* or give up into the catch of lines 2790-2796.
SubmitAttempt ==
    /\ runPc = "sim"
    /\ sPc = "submit"
    /\ LET effect == quoteResults[pIdx].effect
           block == quoteResults[pIdx].blockNumber
       IN  \/ /\ outBal' = MinedBalance(effect, outBal)
              /\ receipt' = MinedReceipt(effect)
              /\ sLog' = Append(sLog, LogSubmit("", TRUE))
              /\ sim' = [sim EXCEPT !.submits = @ + 1, !.mined = @ + 1]
              /\ sPc' = "finish"
              /\ UNCHANGED <<txAttempt, simulationResult, faults>>
              /\ UNCHANGED <<forkBlock, inBal, allowance, currentBlock>>
           \/ \E error \in TxErrors, mined \in BOOLEAN :
              /\ txAttempt = 1 => CanFail
              /\ faults' = IF txAttempt = 1 THEN faults + 1 ELSE faults
              /\ sLog' = Append(sLog, LogSubmit(error.message, mined))
              /\ IF ~StopRetrying(txAttempt, TX_MAX_ATTEMPTS, ShouldRetry("default", error))
                 THEN /\ txAttempt' = txAttempt + 1
                      /\ outBal' = IF mined THEN MinedBalance(effect, outBal) ELSE outBal
                      /\ sim' = [sim EXCEPT !.submits = @ + 1,
                                            !.mined = IF mined THEN @ + 1 ELSE @]
                      /\ UNCHANGED <<sPc, simulationResult>>
                      /\ UNCHANGED <<forkBlock, inBal, allowance, currentBlock>>
                 ELSE IF IsTimeoutError(error) /\ RethrownTimeout(error).threw
                         /\ ~StopRetrying(sim.calls, SIM_MAX_ATTEMPTS,
                                          ShouldRetry("default", error))
                 THEN /\ IF NeedsFork(quoteResults[pIdx])
                         THEN /\ ForkResetTo(block)
                              /\ \E m \in MinedDuring(ForkSleep) : currentBlock' = block + m
                         ELSE /\ outBal' = IF mined THEN MinedBalance(effect, outBal)
                                                    ELSE outBal
                              /\ UNCHANGED <<forkBlock, inBal, allowance, currentBlock>>
                      /\ sim' = [sim EXCEPT !.calls = @ + 1, !.submits = @ + 1,
                                            !.mined = IF mined THEN @ + 1 ELSE @]
                      /\ sPc' = "fund"
                      /\ txAttempt' = 1
                      /\ UNCHANGED simulationResult
                 ELSE /\ IF IsTimeoutError(error)
                         THEN SimReturns(RethrownTimeout(error).result)
                         ELSE SimReturns(SimResult("error", 0, error.message, NoGas))
                      /\ outBal' = IF mined THEN MinedBalance(effect, outBal) ELSE outBal
                      /\ sim' = [sim EXCEPT !.submits = @ + 1,
                                            !.mined = IF mined THEN @ + 1 ELSE @]
                      /\ UNCHANGED txAttempt
                      /\ UNCHANGED <<forkBlock, inBal, allowance, currentBlock>>
              /\ UNCHANGED receipt
    /\ UNCHANGED <<runPc, pair, tokenIn, quoteResults, pIdx, results, allResults, emitted>>
    /\ UNCHANGED <<runConfig, resetAttempt, resetErrors, initialBalance>>
    /\ UNCHANGED <<retryVars, injectVars, waitVars, shutVars, recVars, gasVars, sumVars, batchVars, acctVars>>

\* amountOut of line 1292
AmountOut(finalBalance, initial) == finalBalance - initial

\* The reverted branch with the replay outside its try/catch: a replay that throws
\* reaches the catch of lines 1332-1339.
RevertedResultUncaughtReplay(replayThrew, r) ==
    IF replayThrew
    THEN OuterCatch(Err(MsgReverted))
    ELSE SimResult("reverted", 0, "Transaction reverted", r.gasUsed)

\* The reverted branch (lines 1308-1331): client.call replays the swap at the mined
\* block inside its own try/catch, and the result is the same either way.
RevertedResult(replayThrew, r) ==
    SimResult("reverted", 0, "Transaction reverted", r.gasUsed)

\* After the receipt (lines 1286-1331).
Finish ==
    /\ runPc = "sim"
    /\ sPc = "finish"
    /\ IF receipt.status = "success"
       THEN \/ /\ sim' = [sim EXCEPT !.post = outBal]
               /\ SimReturns(SimResult("success", AmountOut(outBal, initialBalance), "",
                                       receipt.gasUsed))
               /\ UNCHANGED faults
            \/ \E error \in ReadErrors :
               /\ CanFail
               /\ faults' = faults + 1
               /\ SimReturns(OuterCatch(error))
               /\ UNCHANGED sim
       ELSE /\ \E replayThrew \in BOOLEAN : SimReturns(RevertedResult(replayThrew, receipt))
            /\ UNCHANGED <<sim, faults>>
    /\ UNCHANGED <<runPc, pair, tokenIn, quoteResults, pIdx, results, allResults, emitted,
                   sLog>>
    /\ UNCHANGED <<runConfig, forkVars, resetAttempt, resetErrors, currentBlock, txAttempt, initialBalance, receipt>>
    /\ UNCHANGED <<retryVars, injectVars, waitVars, shutVars, recVars, gasVars, sumVars, batchVars, acctVars>>

\* Lines 2806-2833: the net amount and the provider's row; then the next provider.
Record ==
    /\ runPc = "sim"
    /\ sPc = "record"
    /\ LET r == simulationResult
           gasCostInTokenOut ==
               IF r.gasUsed # NoGas
               THEN calculateGasCostInTokenOut(r.gasUsed, monPrice, tokenOutDecimals)
               ELSE 0
           netAmount ==
               IF r.gasUsed # NoGas
               THEN calculateNetAmount(r.amountOut, gasCostInTokenOut)
               ELSE r.amountOut
       IN  results' = Append(results, Row(pair, pIdx, quoteResults[pIdx], r,
                                          gasCostInTokenOut, netAmount))
    /\ IF pIdx < MaxProviders
       THEN /\ BeginCycle(pIdx + 1, sim.active \ {pIdx})
            /\ UNCHANGED runPc
       ELSE /\ runPc' = "collect"
            /\ pIdx' = 1
            /\ sPc' = "none"
            /\ resetAttempt' = 1
            /\ resetErrors' = <<>>
            /\ currentBlock' = 0
            /\ txAttempt' = 1
            /\ initialBalance' = 0
            /\ receipt' = NoReceipt
            /\ simulationResult' = SkippedResult
            /\ sLog' = <<>>
            /\ sim' = [NewSim EXCEPT !.active = sim.active \ {pIdx}]
    /\ UNCHANGED <<pair, tokenIn, quoteResults, allResults, emitted, faults>>
    /\ UNCHANGED <<runConfig, forkVars>>
    /\ UNCHANGED <<retryVars, injectVars, waitVars, shutVars, recVars, gasVars, sumVars, batchVars, acctVars>>

\* Lines 2854-2876: the rows of the (pair, amount) join allResults.
Collect ==
    /\ runPc = "collect"
    /\ allResults' = allResults \o results
    /\ results' = <<>>
    /\ IF pair < MaxPairs
       THEN pair' = pair + 1 /\ runPc' = "start"
       ELSE runPc' = "write" /\ UNCHANGED pair
    /\ UNCHANGED <<tokenIn, quoteResults, pIdx, emitted, sLog, sim, faults>>
    /\ UNCHANGED <<runConfig, forkVars, simLocals>>
    /\ UNCHANGED <<retryVars, injectVars, waitVars, shutVars, recVars, gasVars, sumVars, batchVars, acctVars>>

\* Lines 2878-2950: the CSV file is written; main exits with 0.
WriteCsv ==
    /\ runPc = "write"
    /\ emitted' = allResults
    /\ runPc' = "done"
    /\ UNCHANGED <<pair, tokenIn, quoteResults, pIdx, results, allResults, sLog, sim, faults>>
    /\ UNCHANGED <<runConfig, forkVars, simLocals>>
    /\ UNCHANGED <<retryVars, injectVars, waitVars, shutVars, recVars, gasVars, sumVars, batchVars, acctVars>>

runComparison ==
    \/ FetchQuotes
    \/ \E p \in Providers : QuoteSettles(p)
    \/ QuotesDone
    \/ ResetAttempt
    \/ SimDispatch
    \/ Fund
    \/ Approve
    \/ Snapshot
    \/ CodeCheck
    \/ SubmitAttempt
    \/ Finish
    \/ Record
    \/ Collect
    \/ WriteCsv

(***************************************************************************)
(* compare.ts: the gas cost and the net amount of one result               *)
(***************************************************************************)
\* Results of simulations: amountOut and gasUsed, the price of the native token in
\* the output token (0: none known), the output token's decimals.
GasInputs ==
    [ amountOut : {0, 100000, 99500000},
      gasUsed : {21000, 70000, 100000, 150000},
      price : {0, 3, 2500},
      decimals : {3, 6} ]

GasIdle ==
    /\ cPc = "off"
    /\ cIn = [amountOut |-> 0, gasUsed |-> 21000, price |-> 0, decimals |-> 6]
    /\ cGasCost = 0
    /\ cNet = 0

\* A simulation returned with gasUsed (line 2807).
GasInit ==
    /\ cPc = "cost"
    /\ cIn \in GasInputs
    /\ cGasCost = 0
    /\ cNet = 0

\* Lines 2810-2812
GasCostStep ==
    /\ cPc = "cost"
    /\ cGasCost' = calculateGasCostInTokenOut(cIn.gasUsed, cIn.price, cIn.decimals)
    /\ cPc' = "net"
    /\ UNCHANGED <<cIn, cNet>>
    /\ UNCHANGED <<retryVars, injectVars, runVars, waitVars, shutVars, recVars, sumVars, batchVars, acctVars>>

\* Line 2814
NetAmountStep ==
    /\ cPc = "net"
    /\ cNet' = calculateNetAmount(cIn.amountOut, cGasCost)
    /\ cPc' = "done"
    /\ UNCHANGED <<cIn, cGasCost>>
    /\ UNCHANGED <<retryVars, injectVars, runVars, waitVars, shutVars, recVars, sumVars, batchVars, acctVars>>

GasNext == GasCostStep \/ NetAmountStep

(***************************************************************************)
(* compare.ts: generateSummaryReport                                       *)
(***************************************************************************)
\* The results of a report
MaxResults == 2

\* HTTP statuses of a quote: 0 when the request threw, else the response's.
Statuses == {0, 200, 201, 500}

\* The rows fetchQuote can produce, by the fields the report reads: the output comes
\* from the response body whatever the status; a request that threw has output "0"
\* (lines 1436-1457).
QuoteRows ==
    { r \in [protocol : Providers, status : Statuses, output : {0, 5}] :
        r.status = 0 => r.output = 0 }

RECURSIVE SeqsUpTo(_, _)
SeqsUpTo(S, n) ==
    IF n = 0 THEN {<<>>}
    ELSE LET shorter == SeqsUpTo(S, n - 1)
         IN  shorter \cup { Append(q, x) : q \in shorter, x \in S }

NoStats == [routes |-> 0, successCount |-> 0, successfulQuotes |-> 0]

SummaryIdle ==
    /\ mPc = "off"
    /\ mResults = <<>>
    /\ mStats = [a \in Providers |-> NoStats]

\* generateSummaryReport is called with the results of the run.
SummaryInit ==
    /\ mPc = "stats"
    /\ mResults \in SeqsUpTo(QuoteRows, MaxResults)
    /\ mStats = [a \in Providers |-> NoStats]

\* results.filter(predicate).length
CountWhere(rows, protocol, Test(_)) ==
    Cardinality({ i \in 1..Len(rows) : rows[i].protocol = protocol /\ Test(rows[i]) })

\* The filter of successfulResults (lines 1970-1973)
IsSuccessfulResult(r) == r.output > 0
\* The filter of successfulQuotes (lines 1986-1989)
IsSuccessfulQuote(r) == r.output > 0 /\ r.status = 200
IsAnyResult(r) == TRUE

\* The statistics of every aggregator (lines 1960-1992).
SummaryStats ==
    /\ mPc = "stats"
    /\ mStats' = [a \in Providers |->
                    [routes |-> CountWhere(mResults, a, IsAnyResult),
                     successCount |-> CountWhere(mResults, a, IsSuccessfulResult),
                     successfulQuotes |-> CountWhere(mResults, a, IsSuccessfulQuote)]]
    /\ mPc' = "done"
    /\ UNCHANGED mResults
    /\ UNCHANGED <<retryVars, injectVars, runVars, waitVars, shutVars, recVars, gasVars, batchVars, acctVars>>

generateSummaryReport == SummaryStats

(***************************************************************************)
(* error-recovery.ts: withErrorRecovery, isRecoverableError                *)
(***************************************************************************)
unrecoverablePatterns ==
    { "insufficient funds", "invalid signature", "unauthorized", "forbidden",
      "invalid api key", "malformed", "syntaxerror", "typeerror", "referenceerror" }

recoverablePatterns ==
    { "timeout", "network", "econnrefused", "econnreset", "rate limit",
      "too many requests", "temporary", "service unavailable", "bad gateway",
      "gateway timeout" }

\* isRecoverableError (lines 61-105): unknown errors are recoverable.
isRecoverableError(error) ==
    LET errorMessage == Lower[error.message]
    IN  IF errorMessage \cap unrecoverablePatterns # {} THEN FALSE
        ELSE IF errorMessage \cap recoverablePatterns # {} THEN TRUE
        ELSE TRUE

RecoveryOptionSets ==
    [ maxGlobalRetries : 1..MaxAttemptsBound, continueOnError : BOOLEAN ]

RecoveryIdle ==
    /\ eOpts = [maxGlobalRetries |-> 1, continueOnError |-> TRUE]
    /\ ePc = "off"
    /\ eAttempt = 1
    /\ eHist = <<>>
    /\ eSleeps = <<>>

\* withErrorRecovery is entered (lines 16-25).
RecoveryInit ==
    /\ eOpts \in RecoveryOptionSets
    /\ ePc = "loop"
    /\ eAttempt = 1
    /\ eHist = <<>>
    /\ eSleeps = <<>>

\* The delay of line 44
RecoveryDelay(attempt) == Min(1000 * (2 ^ attempt), 30000)

\* How the call ends when it gives up (lines 34-38 and 50-55)
GivesUp == IF eOpts.continueOnError THEN "null" ELSE "thrown"

\* operation() returns (line 27).
RecoveryOpReturns ==
    /\ ePc = "loop"
    /\ eAttempt <= eOpts.maxGlobalRetries
    /\ eHist' = Append(eHist, Resolved)
    /\ ePc' = "returned"
    /\ UNCHANGED <<eOpts, eAttempt, eSleeps>>
    /\ UNCHANGED <<retryVars, injectVars, runVars, waitVars, shutVars, gasVars, sumVars, batchVars, acctVars>>

\* operation() throws (lines 28-47).
RecoveryOpThrows ==
    /\ ePc = "loop"
    /\ eAttempt <= eOpts.maxGlobalRetries
    /\ \E error \in NodeErrors :
        /\ eHist' = Append(eHist, Rejected(error))
        /\ IF ~isRecoverableError(error)
           THEN /\ ePc' = GivesUp
                /\ UNCHANGED <<eAttempt, eSleeps>>
           ELSE /\ eSleeps' = IF eAttempt < eOpts.maxGlobalRetries
                              THEN Append(eSleeps, RecoveryDelay(eAttempt))
                              ELSE eSleeps
                /\ eAttempt' = eAttempt + 1
                /\ UNCHANGED ePc
    /\ UNCHANGED eOpts
    /\ UNCHANGED <<retryVars, injectVars, runVars, waitVars, shutVars, gasVars, sumVars, batchVars, acctVars>>

\* The loop ran out (lines 50-55).
RecoveryLoopExit ==
    /\ ePc = "loop"
    /\ eAttempt > eOpts.maxGlobalRetries
    /\ ePc' = GivesUp
    /\ UNCHANGED <<eOpts, eAttempt, eHist, eSleeps>>
    /\ UNCHANGED <<retryVars, injectVars, runVars, waitVars, shutVars, gasVars, sumVars, batchVars, acctVars>>

withErrorRecovery == RecoveryOpReturns \/ RecoveryOpThrows \/ RecoveryLoopExit

(***************************************************************************)
(* error-recovery.ts: setupGracefulShutdown                                *)
(***************************************************************************)
\* The fatal events a process may receive while it lives
MaxEvents == 3

\* The events the handlers of lines 206-218 are registered for
FatalEvents == {"SIGTERM", "SIGINT", "uncaughtException", "unhandledRejection"}

NoExit == -1

ShutdownIdle ==
    /\ gPc = "off"
    /\ isShuttingDown = FALSE
    /\ gEvents = <<>>
    /\ gCleanups = 0
    /\ gExit = NoExit

\* setupGracefulShutdown has registered its handlers (lines 184-219).
ShutdownInit ==
    /\ gPc = "running"
    /\ isShuttingDown = FALSE
    /\ gEvents = <<>>
    /\ gCleanups = 0
    /\ gExit = NoExit

\* shutdown with isShuttingDown set only after the cleanup has settled: an event
\* that arrives while the cleanup is awaited starts it again.
FatalEventFlagSetLate ==
    /\ gPc \in {"running", "cleanup"}
    /\ Len(gEvents) < MaxEvents
    /\ \E signal \in FatalEvents : gEvents' = Append(gEvents, signal)
    /\ gPc' = "cleanup"
    /\ gCleanups' = gCleanups + 1
    /\ UNCHANGED <<isShuttingDown, gExit>>
    /\ UNCHANGED <<retryVars, injectVars, runVars, waitVars, recVars, gasVars, sumVars, batchVars, acctVars>>

\* A fatal event arrives: its handler calls shutdown(signal) (lines 187-196), which
\* returns at once while a shutdown is under way and starts the cleanup otherwise.
FatalEvent ==
    /\ gPc \in {"running", "cleanup"}
    /\ Len(gEvents) < MaxEvents
    /\ \E signal \in FatalEvents : gEvents' = Append(gEvents, signal)
    /\ IF isShuttingDown
       THEN UNCHANGED <<gPc, isShuttingDown, gCleanups>>
       ELSE /\ isShuttingDown' = TRUE
            /\ gPc' = "cleanup"
            /\ gCleanups' = gCleanups + 1
    /\ UNCHANGED gExit
    /\ UNCHANGED <<retryVars, injectVars, runVars, waitVars, recVars, gasVars, sumVars, batchVars, acctVars>>

\* The exit code shutdown gives to process.exit (lines 198 and 201)
ShutdownExitCode(cleanupSucceeded) == IF cleanupSucceeded THEN 0 ELSE 1

\* The cleanup settles (lines 196-202): process.exit ends the process.
CleanupSettles ==
    /\ gPc = "cleanup"
    /\ \E cleanupSucceeded \in BOOLEAN : gExit' = ShutdownExitCode(cleanupSucceeded)
    /\ gPc' = "exited"
    /\ UNCHANGED <<isShuttingDown, gEvents, gCleanups>>
    /\ UNCHANGED <<retryVars, injectVars, runVars, waitVars, recVars, gasVars, sumVars, batchVars, acctVars>>

ShutdownNext == FatalEvent \/ CleanupSettles

(***************************************************************************)
(* client.ts: waitForAnvil, checkAnvilHealth                               *)
(***************************************************************************)
checkInterval == 1000

\* maxWaitTime of the call and the time a health check takes, in milliseconds
MaxWaitTimes == {0, 1000, 2500, 3500}
CheckDurations == {0, 400, 1500}

\* What the node's endpoint does with the request of checkAnvilHealth.
Responses == {"result", "noResult", "notOk", "threw"}

\* checkAnvilHealth (lines 203-225): true only for an ok response with a result.
checkAnvilHealth(response) == response = "result"

HealthCheck(start, end, healthy) == [start |-> start, end |-> end, healthy |-> healthy]

WaitIdle ==
    /\ wPc = "off"
    /\ wNow = 0
    /\ wMax = 0
    /\ wChecks = <<>>

\* waitForAnvil is entered (lines 230-232).
WaitInit ==
    /\ wPc = "test"
    /\ wNow = 0
    /\ wMax \in MaxWaitTimes
    /\ wChecks = <<>>

\* The loop condition with <= for <.
WithinMaxWaitInclusive(elapsed, maxWaitTime) == elapsed <= maxWaitTime

\* The loop condition (line 234)
WithinMaxWait(elapsed, maxWaitTime) == elapsed < maxWaitTime

\* The loop condition is tested; past maxWaitTime the error of line 244 is thrown.
WaitTest ==
    /\ wPc = "test"
    /\ wPc' = IF WithinMaxWait(wNow, wMax) THEN "check" ELSE "thrown"
    /\ UNCHANGED <<wNow, wMax, wChecks>>
    /\ UNCHANGED <<retryVars, injectVars, runVars, shutVars, recVars, gasVars, sumVars, batchVars, acctVars>>

\* One health check (lines 235-239): it settles after some time, and a healthy
\* node ends the wait.
WaitCheck ==
    /\ wPc = "check"
    /\ \E duration \in CheckDurations, response \in Responses :
        LET isHealthy == checkAnvilHealth(response)
        IN  /\ wNow' = wNow + duration
            /\ wChecks' = Append(wChecks, HealthCheck(wNow, wNow + duration, isHealthy))
            /\ wPc' = IF isHealthy THEN "returned" ELSE "sleep"
    /\ UNCHANGED wMax
    /\ UNCHANGED <<retryVars, injectVars, runVars, shutVars, recVars, gasVars, sumVars, batchVars, acctVars>>

\* The pause of line 241.
WaitSleep ==
    /\ wPc = "sleep"
    /\ wNow' = wNow + checkInterval
    /\ wPc' = "test"
    /\ UNCHANGED <<wMax, wChecks>>
    /\ UNCHANGED <<retryVars, injectVars, runVars, shutVars, recVars, gasVars, sumVars, batchVars, acctVars>>

waitForAnvil == WaitTest \/ WaitCheck \/ WaitSleep

(***************************************************************************)
(* error-recovery.ts: processWithRecovery                                  *)
(***************************************************************************)
MaxItems == 3
MaxConcurrent == 3

BatchOptionSets ==
    [ items : 0..MaxItems,
      maxConcurrent : 0..MaxConcurrent,
      continueOnItemError : BOOLEAN,
      onItemSuccessThrows : BOOLEAN,
      onItemErrorThrows : BOOLEAN ]

Items == 1..MaxItems

\* An element of the results array; Hole is an index never assigned.
Entry(item, success) == [item |-> item, success |-> success]
Hole == [item |-> 0, success |-> FALSE]

\* results.push(entry)
Push(arr, entry) == Append(arr, entry)

\* results[index] = entry, for the item at that index (items are numbered from 1)
SetAt(arr, index, entry) ==
    IF index <= Len(arr)
    THEN [arr EXCEPT ![index] = entry]
    ELSE arr \o [k \in 1..(index - Len(arr) - 1) |-> Hole] \o <<entry>>

BatchIdle ==
    /\ bOpts = [items |-> 0, maxConcurrent |-> 1, continueOnItemError |-> TRUE,
                onItemSuccessThrows |-> FALSE, onItemErrorThrows |-> FALSE]
    /\ bPc = "off"
    /\ bNext = 1
    /\ bInFlight = {}
    /\ bResults = <<>>
    /\ bCalls = [i \in Items |-> 0]
    /\ bSettled = [i \in Items |-> "none"]

\* processWithRecovery is called (lines 110-122).
BatchInit ==
    /\ bOpts \in BatchOptionSets
    /\ bPc = "loop"
    /\ bNext = 1
    /\ bInFlight = {}
    /\ bResults = <<>>
    /\ bCalls = [i \in Items |-> 0]
    /\ bSettled = [i \in Items |-> "none"]

\* The test of line 124
Sequential == bOpts.maxConcurrent = 1

\* The items the inner loop of lines 146-169 starts: from the head of the queue,
\* while inProgress.size < maxConcurrent.
Startable(inProgress) ==
    { i \in bNext..bOpts.items : (i - bNext) + Cardinality(inProgress) < bOpts.maxConcurrent }

\* The code runs up to its next await: the for loop of lines 126-140 calls the
\* processor for item i, or ends; the while loop of lines 145-175 starts what it
\* may start and awaits Promise.race, or ends.  With items left and nothing it may
\* start or wait for, the while loop goes round without an await, for ever.
BatchLoop ==
    /\ bPc = "loop"
    /\ IF Sequential
       THEN IF bNext <= bOpts.items
            THEN /\ bCalls' = [bCalls EXCEPT ![bNext] = @ + 1]
                 /\ bInFlight' = {bNext}
                 /\ bNext' = bNext + 1
                 /\ bPc' = "await"
            ELSE /\ bPc' = "returned"
                 /\ UNCHANGED <<bCalls, bInFlight, bNext>>
       ELSE LET started == Startable(bInFlight)
            IN  /\ bCalls' = [i \in Items |-> IF i \in started THEN bCalls[i] + 1
                                                              ELSE bCalls[i]]
                /\ bInFlight' = bInFlight \cup started
                /\ bNext' = bNext + Cardinality(started)
                /\ bPc' = IF bInFlight' # {} THEN "await"
                          ELSE IF bNext' <= bOpts.items THEN "spin"
                          ELSE "returned"
    /\ UNCHANGED <<bOpts, bResults, bSettled>>
    /\ UNCHANGED <<retryVars, injectVars, runVars, waitVars, shutVars, recVars, gasVars, sumVars, acctVars>>

\* The catch block (lines 132-139, 156-163) runs: the processor rejected, or
\* onItemSuccess threw inside the try block (line 131) or the then handler (line 154).
Caught(resolved) == ~resolved \/ bOpts.onItemSuccessThrows

\* The catch block throws in its turn: onItemError threw (lines 133, 157), or the
\* error is thrown again (lines 137, 161).
Escapes(resolved) ==
    Caught(resolved) /\ (bOpts.onItemErrorThrows \/ ~bOpts.continueOnItemError)

\* The entries written for item i, in the order of writing (lines 130, 135; 153, 159)
Written(i, resolved) ==
    (IF resolved THEN <<Entry(i, TRUE)>> ELSE <<>>)
    \o (IF Caught(resolved) /\ ~Escapes(resolved) THEN <<Entry(i, FALSE)>> ELSE <<>>)

RECURSIVE Store(_, _, _)
Store(arr, i, entries) ==
    IF entries = <<>> THEN arr
    ELSE Store(IF Sequential THEN Push(arr, Head(entries)) ELSE SetAt(arr, i, Head(entries)),
               i, Tail(entries))

\* The processor call of item i settles.  Sequential mode (lines 129-139): the
\* entries are pushed, or the error thrown.  Concurrent mode (lines 150-166): the
\* entries are stored at the item's index and the task leaves inProgress; the first
\* task to settle settles Promise.race, and others may settle before the loop
\* runs again.  A task that rejects after the race was settled rejects unheard.
BatchSettles(i) ==
    /\ i \in bInFlight
    /\ bPc \in {"await", "loop"}
    /\ \E resolved \in BOOLEAN :
        /\ bSettled' = [bSettled EXCEPT ![i] = IF resolved THEN "resolved" ELSE "rejected"]
        /\ bResults' = Store(bResults, i, Written(i, resolved))
        /\ bPc' = IF ~Escapes(resolved) THEN "loop"
                  ELSE IF bPc = "await" THEN "thrown" ELSE bPc
    /\ bInFlight' = bInFlight \ {i}
    /\ UNCHANGED <<bOpts, bNext, bCalls>>
    /\ UNCHANGED <<retryVars, injectVars, runVars, waitVars, shutVars, recVars, gasVars, sumVars, acctVars>>

processWithRecovery == BatchLoop \/ \E i \in Items : BatchSettles(i)

(***************************************************************************)
(* compare.ts: simulateTransaction, the test account's balances on the fork *)
(***************************************************************************)
\* What the node charges the sender of a mined transaction, gasUsed times the gas
\* price of the fork (start-fork.sh sets none), in the units of AmountsIn.
Fees == {1, 2}
\* What the swap pays the test account in the output token
Yields == {0, 1, 3, 5}
\* The native balance the test account holds on the fork before the sample
NativeHeld == {100}

OutputPairs == [inNative : BOOLEAN, outNative : BOOLEAN, amountIn : AmountsIn]

AcctIdle ==
    /\ aPair = [inNative |-> TRUE, outNative |-> FALSE, amountIn |-> 0]
    /\ aPc = "off"
    /\ aNative = 0
    /\ aToken = 0
    /\ aInitial = 0
    /\ aReceipt = "none"
    /\ aResult = [status |-> "none", amountOut |-> 0]

\* simulateTransaction is called (line 1166), the fork just reset.
AcctInit ==
    /\ aPair \in OutputPairs
    /\ aPc = "fund"
    /\ aNative \in NativeHeld
    /\ aToken = 0
    /\ aInitial = 0
    /\ aReceipt = "none"
    /\ aResult = [status |-> "none", amountOut |-> 0]

\* getTokenBalance(client, tokenOut, TEST_ACCOUNT, isNative) (lines 1128-1144)
getTokenBalance(isNative) == IF isNative THEN aNative ELSE aToken

\* "Set up balances" (lines 1174-1227): setNativeBalance for a native input; for an
\* ERC20 input the approval is a transaction of the test account, which pays its fee.
AcctFund ==
    /\ aPc = "fund"
    /\ IF aPair.inNative
       THEN aNative' = Max(aPair.amountIn * 1000000, minBalance)
       ELSE \E fee \in Fees : aNative' = aNative - fee
    /\ aPc' = "snapshot"
    /\ UNCHANGED <<aPair, aToken, aInitial, aReceipt, aResult>>
    /\ UNCHANGED <<retryVars, injectVars, runVars, waitVars, shutVars, recVars, gasVars, sumVars, batchVars>>

\* Lines 1232-1234
AcctSnapshot ==
    /\ aPc = "snapshot"
    /\ aInitial' = getTokenBalance(aPair.outNative)
    /\ aPc' = "submit"
    /\ UNCHANGED <<aPair, aNative, aToken, aReceipt, aResult>>
    /\ UNCHANGED <<retryVars, injectVars, runVars, waitVars, shutVars, recVars, gasVars, sumVars, batchVars>>

\* The swap is mined (lines 1252-1265): the test account pays the fee and, when the
\* swap succeeds, the value of a native input, and receives what the swap pays out.
AcctMined ==
    /\ aPc = "submit"
    /\ \E fee \in Fees, yield \in Yields, succeeded \in BOOLEAN :
        LET value == IF aPair.inNative /\ succeeded THEN aPair.amountIn ELSE 0
            paid == IF succeeded THEN yield ELSE 0
        IN  /\ aNative' = aNative - fee - value + (IF aPair.outNative THEN paid ELSE 0)
            /\ aToken' = aToken + (IF aPair.outNative THEN 0 ELSE paid)
            /\ aReceipt' = IF succeeded THEN "success" ELSE "reverted"
    /\ aPc' = "finish"
    /\ UNCHANGED <<aPair, aInitial, aResult>>
    /\ UNCHANGED <<retryVars, injectVars, runVars, waitVars, shutVars, recVars, gasVars, sumVars, batchVars>>

\* After the receipt (lines 1286-1331)
AcctFinish ==
    /\ aPc = "finish"
    /\ aResult' = IF aReceipt = "success"
                  THEN [status |-> "success",
                        amountOut |-> AmountOut(getTokenBalance(aPair.outNative), aInitial)]
                  ELSE [status |-> "reverted", amountOut |-> 0]
    /\ aPc' = "returned"
    /\ UNCHANGED <<aPair, aNative, aToken, aInitial, aReceipt>>
    /\ UNCHANGED <<retryVars, injectVars, runVars, waitVars, shutVars, recVars, gasVars, sumVars, batchVars>>

simulateTransaction == AcctFund \/ AcctSnapshot \/ AcctMined \/ AcctFinish

(***************************************************************************)
(* The specifications                                                      *)
(***************************************************************************)
RetrySpecInit == RetryInit /\ InjectIdle /\ RunIdle /\ WaitIdle /\ ShutdownIdle /\ RecoveryIdle /\ GasIdle /\ SummaryIdle /\ BatchIdle /\ AcctIdle
InjectSpecInit == RetryIdle /\ InjectInit /\ RunIdle /\ WaitIdle /\ ShutdownIdle /\ RecoveryIdle /\ GasIdle /\ SummaryIdle /\ BatchIdle /\ AcctIdle
WaitSpecInit == RetryIdle /\ InjectIdle /\ RunIdle /\ WaitInit /\ ShutdownIdle /\ RecoveryIdle /\ GasIdle /\ SummaryIdle /\ BatchIdle /\ AcctIdle
ShutdownSpecInit == RetryIdle /\ InjectIdle /\ RunIdle /\ WaitIdle /\ ShutdownInit /\ RecoveryIdle /\ GasIdle /\ SummaryIdle /\ BatchIdle /\ AcctIdle
RecoverySpecInit ==
    RetryIdle /\ InjectIdle /\ RunIdle /\ WaitIdle /\ ShutdownIdle /\ RecoveryInit /\ GasIdle
        /\ SummaryIdle /\ BatchIdle /\ AcctIdle
GasSpecInit ==
    RetryIdle /\ InjectIdle /\ RunIdle /\ WaitIdle /\ ShutdownIdle /\ RecoveryIdle /\ GasInit
        /\ SummaryIdle /\ BatchIdle /\ AcctIdle
SummarySpecInit ==
    RetryIdle /\ InjectIdle /\ RunIdle /\ WaitIdle /\ ShutdownIdle /\ RecoveryIdle /\ GasIdle
        /\ SummaryInit /\ BatchIdle /\ AcctIdle
BatchSpecInit ==
    RetryIdle /\ InjectIdle /\ RunIdle /\ WaitIdle /\ ShutdownIdle /\ RecoveryIdle /\ GasIdle
        /\ SummaryIdle /\ BatchInit /\ AcctIdle
AcctSpecInit ==
    RetryIdle /\ InjectIdle /\ RunIdle /\ WaitIdle /\ ShutdownIdle /\ RecoveryIdle /\ GasIdle
        /\ SummaryIdle /\ BatchIdle /\ AcctInit
Init == RetryIdle /\ InjectIdle /\ RunInit /\ WaitIdle /\ ShutdownIdle /\ RecoveryIdle /\ GasIdle /\ SummaryIdle /\ BatchIdle /\ AcctIdle
Next == runComparison

SpecRetry == RetrySpecInit /\ [][RetryNext]_vars
SpecInject == InjectSpecInit /\ [][InjectNext]_vars
Spec == Init /\ [][Next]_vars
\* Every processor call settles and the loop of processWithRecovery goes on.
SpecBatch == BatchSpecInit /\ [][processWithRecovery]_vars /\ WF_vars(processWithRecovery)
SpecBalances == AcctSpecInit /\ [][simulateTransaction]_vars
SpecSummary == SummarySpecInit /\ [][generateSummaryReport]_vars
SpecGas == GasSpecInit /\ [][GasNext]_vars
SpecRecovery == RecoverySpecInit /\ [][withErrorRecovery]_vars
SpecShutdown == ShutdownSpecInit /\ [][ShutdownNext]_vars
\* The timer of line 241 fires and a health check settles: no step of waitForAnvil
\* is postponed forever.
SpecWait == WaitSpecInit /\ [][waitForAnvil]_vars /\ WF_vars(waitForAnvil)

(***************************************************************************)
(* Claims about setERC20Balance (checked under SpecInject)                 *)
(***************************************************************************)

\* C1: a call of setERC20Balance ends either returning true with
\* balanceOf(holder) >= amount, or returning false with the fork's storage
\* identical to what it was before the call.
C1_AllOrNothing ==
    iPc = "ret" =>
        \/ iRet = "true" /\ balanceOf(tok, storage) >= iAmount
        \/ iRet = "false" /\ storage = iPre

\* C2: once a call for the token has succeeded and confirmed a slot, a later call
\* sends exactly one storage write, to the key derived from the cached slot, and
\* writes to no other candidate slot.
C2_CacheReuseOneWrite ==
    (iPc = "ret" /\ iConfirmed /\ iHadCache # NoSlot) =>
        /\ iWrites = 1
        /\ iProbed = {StdKey(iHadCache)}

(***************************************************************************)
(* C7: with maxAttempts = n >= 1, fn is invoked again only after a failure *)
(* the classifier marks retryable and while attempts remain: k < n         *)
(* retryable failures then a success make k+1 invocations and a return; a  *)
(* non-retryable failure is the last invocation; n failures make exactly n *)
(* invocations and the last attempt's error is thrown.                     *)
(***************************************************************************)
RetryableAt(i) == ~rHist[i].ok /\ ShouldRetry(rOpts.classifier, rHist[i].error)

C7_InvocationCount ==
    rOpts.maxAttempts >= 1 =>
        LET n == rOpts.maxAttempts
            k == Len(rHist)
        IN  /\ k <= n
            /\ \A i \in 1..(k - 1) : RetryableAt(i)
            /\ rPc = "loop" => k = rAttempt - 1 /\ k < n /\ (k > 0 => RetryableAt(k))
            /\ rPc = "returned" => k >= 1 /\ rHist[k].ok
            /\ rPc = "thrown" =>
                    /\ k >= 1 /\ ~rHist[k].ok
                    /\ rThrown = rHist[k].error
                    /\ (k = n \/ ~RetryableAt(k))

\* maxAttempts = 3, two retryable failures, then success: three invocations.
C7_Witness ==
    /\ rOpts.maxAttempts = 3 /\ rPc = "returned" /\ Len(rHist) = 3
    /\ ~rHist[1].ok /\ ~rHist[2].ok /\ rHist[3].ok

(***************************************************************************)
(* Claims about runComparison and simulateTransaction (checked under Spec) *)
(***************************************************************************)
RunEnded == runPc \in {"done", "aborted"}
RowsOf(rows, pr, p) == { i \in 1..Len(rows) : rows[i].pair = pr /\ rows[i].provider = p }
AllRows == Range(results) \cup Range(allResults) \cup Range(emitted)
IsTimeoutMessage(msg) == "timeout" \in Lower[msg] \/ "timed out" \in Lower[msg]

\* C3: with simulation enabled, when the run has ended the emitted result set
\* holds exactly one row for every (pair, provider) sample whose processing
\* started, whatever failures occurred.
C3_OneRowPerSample ==
    (simulation /\ RunEnded) =>
        \A pr \in 1..pair, p \in Providers : Cardinality(RowsOf(emitted, pr, p)) = 1

\* C4: no failure of a step of a sample's simulation, the fork reset failing on
\* all its attempts included, aborts the run.
C4_FailureNeverAborts == runPc # "aborted"

\* C5: between a swap submission that failed with a timeout and the next
\* submission of the same sample there is a fork reset.
C5_ResetBeforeResubmission ==
    \A i, j \in 1..Len(sLog) :
        (i < j /\ sLog[i].ev = "submit" /\ IsTimeoutMessage(sLog[i].msg)
               /\ sLog[j].ev = "submit")
            => \E k \in (i + 1)..(j - 1) : sLog[k].ev = "reset"

\* C6: when the swap was submitted more than once, the amountOut and gasUsed of a
\* successful result are those of one execution of the swap: nothing an earlier
\* submission did is part of postBalance - preBalance.
C6_OnlySuccessfulAttemptCounted ==
    (runPc = "sim" /\ sPc = "record" /\ simulationResult.status = "success"
                   /\ sim.submits > 1) =>
        /\ simulationResult.amountOut = quoteResults[pIdx].effect.delta
        /\ simulationResult.gasUsed = gasUsedBySwap

\* C8 as stated: when setERC20Balance returned false, simulateTransaction returns
\* status "error", error "Failed to set token balance for simulation" and
\* amountOut 0, submits neither the approval nor the swap, and is not called again.
C8_InjectFalseReported ==
    sim.injectRet = "false" =>
        /\ sPc = "record"
        /\ simulationResult = SimResult("error", 0, MsgFailedSetBalance, NoGas)
        /\ sim.approvals = 0 /\ sim.submits = 0 /\ sim.calls = 1

\* C8, amended: as above, but the error is the message of the balanceOf read of
\* line 1195 when that read throws.
C8_InjectFalseReportedOrReadError ==
    sim.injectRet = "false" =>
        /\ sPc = "record"
        /\ simulationResult.status = "error"
        /\ simulationResult.amountOut = 0
        /\ simulationResult.gasUsed = NoGas
        /\ \/ simulationResult.error = MsgFailedSetBalance
           \/ \E error \in ReadErrors : simulationResult.error = error.message
        /\ sim.approvals = 0 /\ sim.submits = 0 /\ sim.calls = 1

\* setERC20Balance returned false although the account holds enough: reported as
\* the failure to set the balance.
C8_Witness ==
    /\ sim.injectRet = "false"
    /\ inBal >= quoteResults[pIdx].amountIn
    /\ simulationResult.error = MsgFailedSetBalance

\* C9: a successful result's amountOut is the balance read after the swap minus
\* the balance snapshotted before it, and a successful row's netAmount is
\* max(0, amountOut - gasCostInTokenOut), the gas cost being that of its gasUsed.
C9_SuccessAmounts ==
    /\ (runPc = "sim" /\ sPc = "record" /\ simulationResult.status = "success") =>
            simulationResult.amountOut = sim.post - sim.pre
    /\ \A row \in AllRows :
            row.simulationStatus = "success" =>
                /\ row.gasCostInTokenOut =
                       calculateGasCostInTokenOut(row.gasUsed, monPrice, tokenOutDecimals)
                /\ row.netAmount = Max(0, row.simulationOutput - row.gasCostInTokenOut)

\* A successful swap whose output is worth less than its gas: the row, emitted
\* with netAmount 0, is a success.
C9_Witness ==
    \E i \in 1..Len(emitted) :
        /\ emitted[i].simulationStatus = "success"
        /\ emitted[i].simulationOutput > 0
        /\ emitted[i].simulationOutput < emitted[i].gasCostInTokenOut
        /\ emitted[i].netAmount = 0

C11_ResetBeforeSimulation ==
    (runPc = "sim" /\ sim.calls >= 1) =>
        /\ Len(sLog) >= 1
        /\ sLog[1].ev = "reset"
        /\ forkBlock = quoteResults[pIdx].blockNumber
        /\ \A i \in 1..Len(results) : results[i].provider # pIdx

\* The second provider's simulation starts on the fork reset to its own block,
\* after the first provider's swap was executed.
C11_Witness ==
    /\ runPc = "sim" /\ pIdx = 2 /\ sPc = "fund" /\ sim.calls = 1
    /\ forkBlock = quoteResults[2].blockNumber
    /\ forkBlock # quoteResults[1].blockNumber
    /\ results[1].simulationStatus = "success"

\* C12: every row's simulation status is success, reverted, error or skipped;
\* the "pending" of fetchQuote reaches no row, with or without simulation.
C12_RowStatusDefined ==
    \A row \in AllRows :
        row.simulationStatus \in {"success", "reverted", "error", "skipped"}

\* Without simulation, the row of a quote that was fetched (and left "pending"
\* by fetchQuote) is emitted as skipped.
C12_Witness ==
    /\ ~simulation
    /\ \E i \in 1..Len(emitted) :
        /\ emitted[i].status = 200
        /\ emitted[i].simulationStatus = "skipped"
        /\ quoteResults[emitted[i].provider].simulationStatus = "pending"

\* C13: whatever node calls fail, setERC20Balance ends by returning a boolean,
\* never by throwing; it returns true only after a verification read that showed
\* balanceOf(holder) >= amount, and false once the strategies are exhausted.
C13_InjectNeverThrows ==
    iPc = "ret" =>
        /\ iRet \in {"true", "false"}
        /\ iRet = "true" => Verified(balanceOf(tok, storage), iAmount)

\* All strategies exhausted, a node call having thrown on the way: false is returned.
C13_Witness ==
    /\ iPc = "ret" /\ iRet = "false" /\ iFaults >= 1
    /\ ~Verified(balanceOf(tok, storage), iAmount)

\* C14: inside setERC20Balance every write that failed verification is undone
\* before the next candidate slot or strategy is tried: whenever an attempt is
\* about to start, the storage is what it was when the call started.
C14_AttemptsStartFromCleanStorage ==
    iPc \in {"m1", "m2", "m3", "m4", "m5find", "m5", "m6", "m7", "fail"} =>
        storage = iPre

\* C15: the balance-slot cache is write-once per token: once it holds a slot for
\* the token, no step stores a different slot or removes the entry.
C15_CacheWriteOnce == [][cache # NoSlot => cache' = cache]_vars

\* C16: the default classifier marks an error retryable when its message
\* indicates a timeout, a connection reset, a rate-limit response or "block not
\* found", and marks every error whose message contains "revert" non-retryable.
\* Stated on the attempts of retryWithBackoff with the default classifier: an
\* attempt that failed with a revert is the last one, and one that failed with an
\* error of the four kinds is followed by another while attempts remain.
C16_DefaultClassifier ==
    rOpts.classifier = "default" =>
        \A i \in 1..Len(rHist) :
            ~rHist[i].ok =>
                LET message == Lower[rHist[i].error.message]
                    settled == i < Len(rHist) \/ rPc = "thrown"
                IN  /\ "revert" \in message => i = Len(rHist)
                    /\ (settled /\ i < rOpts.maxAttempts
                           /\ message \cap {"timeout", "econnreset", "too many requests",
                                            "block requested not found"} # {})
                        => i < Len(rHist)

\* ---------------------------------------------------------------------------
\* C17: a fork reset is attempted at most five times; a failed attempt is
\* followed by another one for every error except those whose message contains
\* "invalid block" or "not found", which end the reset after that attempt; an
\* attempt that ran into the five-minute limit is a failed attempt that is
\* retried like any other.
ResetGaveUp == runPc = "aborted" /\ sPc = "reset" /\ sLog = <<>>

EndsReset(error) ==
    \/ "invalid block" \in Lower[error.message]
    \/ "not found" \in Lower[error.message]

LogOf(op) == { i \in 1..Len(rLog) : rLog[i].op = op }

RECURSIVE Power(_, _)
Power(b, e) == IF e = 0 THEN 1 ELSE b * Power(b, e - 1)

\* min(initialDelay * backoffMultiplier^(k-1), maxDelay)
ClampedDelay(k) ==
    Min(rOpts.initialDelay * Power(rOpts.backoffMultiplier, k - 1), rOpts.maxDelay)

NumSleeps == Cardinality(LogOf("sleep"))
KthSleep(k) == rLog[IF rOpts.hasOnRetry THEN 2 * k ELSE k]

\* onRetry(k) comes right before the k-th sleep, and nothing else is logged.
CallbackThenSleep ==
    /\ Len(rLog) = IF rOpts.hasOnRetry THEN 2 * NumSleeps ELSE NumSleeps
    /\ \A k \in 1..NumSleeps :
        /\ KthSleep(k).op = "sleep"
        /\ rOpts.hasOnRetry => rLog[2 * k - 1] = [op |-> "onRetry", arg |-> k]

WaitEnded == wPc \in {"returned", "thrown"}

NoCheckPastMaxWait == \A i \in 1..Len(wChecks) : wChecks[i].start < wMax

FixedPause ==
    \A i \in 2..Len(wChecks) : wChecks[i].start = wChecks[i - 1].end + checkInterval

WaitSafety ==
    /\ NoCheckPastMaxWait
    /\ FixedPause
    /\ \A i \in 1..Len(wChecks) :
          wChecks[i].healthy => i = Len(wChecks) /\ wPc = "returned" /\ wNow = wChecks[i].end
    /\ wPc = "returned" => wChecks # <<>> /\ wChecks[Len(wChecks)].healthy
    /\ wPc = "thrown" => wNow >= wMax
    /\ wChecks # <<>> => (Len(wChecks) - 1) * checkInterval < wMax

C21_QueryReturnsResetBlock ==
    currentBlock # 0 => currentBlock = quoteResults[pIdx].blockNumber

\* ---------------------------------------------------------------------------
\* C22: a fatal event (SIGTERM, SIGINT, uncaughtException, unhandledRejection)
\* starts the shutdown handler, which runs the cleanup once and then ends the
\* process with a non-zero exit code.
C22_FatalEventExitsNonZero ==
    /\ gEvents # <<>> => isShuttingDown /\ gCleanups = 1
    /\ gPc = "exited" => gExit # NoExit /\ gExit # 0

PermanentError(error) ==
    Lower[error.message] \cap {"revert", "invalid signature", "insufficient funds"} # {}

C24_PermanentNotRetried ==
    \A i \in 1..Len(eHist) :
        (~eHist[i].ok /\ PermanentError(eHist[i].error)) => i = Len(eHist)

\* ---------------------------------------------------------------------------
\* C25: the gas cost is floor(gasUsed * 10^9 * price * 10^decimals / 10^18);
\* for amountOut 99,500,000, gasUsed 150,000, price 2500 and 6 decimals it is
\* 375,000 and the net amount 99,125,000.
ExactGasCost(gasUsed, price, decimals) ==
    (gasUsed * price) \div Pow10(GasPriceExponent - decimals)

C25_GasCostIsExactFloor ==
    (cPc = "done" /\ cIn.price # 0) =>
        /\ cGasCost = ExactGasCost(cIn.gasUsed, cIn.price, cIn.decimals)
        /\ (cIn = [amountOut |-> 99500000, gasUsed |-> 150000, price |-> 2500,
                   decimals |-> 6])
              => cGasCost = 375000 /\ cNet = 99125000

\* ---------------------------------------------------------------------------
\* C26: the success count behind an aggregator's success rate is the number of
\* its results with HTTP status 200 and an output greater than 0.
C26_SuccessNeedsStatus200 ==
    mPc = "done" =>
        \A a \in Providers :
            mStats[a].successCount =
                Cardinality({ i \in 1..Len(mResults) :
                                /\ mResults[i].protocol = a
                                /\ mResults[i].status = 200
                                /\ mResults[i].output > 0 })

(***************************************************************************)
(* C27  Within one sample simulateTransaction goes through its steps in    *)
(*      the order fund, approve (ERC20 input only), snapshot, code check,  *)
(*      submit; and when the swap target has no code the swap is never     *)
(*      submitted and the sample ends with status "error".                 *)
(***************************************************************************)
\* The step that may follow each step when simulateTransaction goes on.
StepAfter(step) ==
    CASE step = "dispatch" -> {"fund"}
      [] step = "fund" -> IF tokenIn.native THEN {"snapshot"} ELSE {"approve"}
      [] step = "approve" -> {"snapshot"}
      [] step = "snapshot" -> {"code"}
      [] step = "code" -> {"submit"}
      [] step = "submit" -> {"finish"}
      [] OTHER -> {}

SimSteps == {"dispatch", "fund", "approve", "snapshot", "code", "submit"}

\* A step is followed by the next one of the order, or the sample ends.
StepsInOrder ==
    (runPc = "sim" /\ sPc \in SimSteps /\ sPc' # sPc) => sPc' \in StepAfter(sPc) \cup {"record"}

\* The node is written to by the step that is due, and by no other.
WritesAtTheirStep ==
    /\ sim'.approvals > sim.approvals => sPc = "approve" /\ ~tokenIn.native
    /\ sim'.submits > sim.submits => sPc = "submit"

TargetHasNoCode == quoteResults[pIdx].effect.kind = "nocode"

NoCodeNoSubmit ==
    (runPc = "sim" /\ sim.calls >= 1 /\ TargetHasNoCode) =>
        /\ sim.submits = 0
        /\ sPc \notin {"submit", "finish"}
        /\ sPc = "record" => simulationResult.status = "error"

C27_StepsInOrder == []NoCodeNoSubmit /\ [][StepsInOrder /\ WritesAtTheirStep]_vars

\* An ERC20 sample whose target has no code got as far as the code check and ended there.
C27_Witness ==
    /\ runPc = "sim" /\ sPc = "record" /\ ~tokenIn.native /\ TargetHasNoCode
    /\ sim.approvals = 1 /\ sim.submits = 0
    /\ simulationResult = SimResult("error", 0, MsgNoTarget, NoGas)

\* ---------------------------------------------------------------------------
\* C28: for an ERC20 input the test account is funded with 10 * amountIn, and the
\* allowance the approval step grants to the swap target is that same amount.
ApprovalGranted ==
    /\ runPc = "sim" /\ ~tokenIn.native /\ sim.approvals = 1
    /\ sPc \in {"snapshot", "code", "submit", "finish"}
    /\ allowance # 0

C28_AllowanceIsBufferedAmount ==
    /\ (runPc = "sim" /\ ~tokenIn.native /\ sPc = "approve")
          => inBal = bufferMultiplier * quoteResults[pIdx].amountIn
    /\ ApprovalGranted => allowance = bufferMultiplier * quoteResults[pIdx].amountIn

\* ---------------------------------------------------------------------------
\* C29: for one sample the swap transaction is sent to the node at most 3 times in
\* all, the retries of executeTransactionWithRetry and of the simulation-level
\* wrapper of runComparison counted together.
SubmissionsOf(log) == Len(SelectSeq(log, LAMBDA e : e.ev = "submit"))

StrategyRank(pc) ==
    CASE pc = "m1" -> 1
      [] pc = "m2" -> 2
      [] pc = "m3" -> 3
      [] pc = "m4" -> 4
      [] pc \in {"m5find", "m5"} -> 5
      [] pc = "m6" -> 6
      [] pc = "m7" -> 7
      [] OTHER -> 8

InCall == iPc \in {"m1", "m2", "m3", "m4", "m5find", "m5", "m6", "m7", "fail"}

\* The call never goes back to an earlier strategy.
StrategiesInOrder == InCall => StrategyRank(iPc') >= StrategyRank(iPc)

\* Once a verification has succeeded the call has returned true.
FirstSuccessWins ==
    (iVerified # "none" /\ iPc # "idle") => (iPc = "ret" /\ iRet = "true")

NoWriteAfterSuccess == iVerified # "none" => iWrites' <= iWrites

C30_FirstSuccessEndsInject ==
    []FirstSuccessWins /\ [][StrategiesInOrder /\ NoWriteAfterSuccess]_vars

\* ---------------------------------------------------------------------------
\* C31: proxy detection is over before the first strategy of setERC20Balance
\* writes; the reversed-key strategy runs only when an implementation pointer was
\* found and every other strategy has been gone through without returning; for a
\* token not detected as a proxy no reversed-key write is ever sent.
ReversedKeys == { RevKey(sl) : sl \in Range(proxySlots) }

ReversedKeyOnlyForProxy ==
    /\ iPc = "m7" => iImpl
    /\ iImpl => tok.impl # 0
    /\ (iPc # "off" /\ ~iImpl) => iProbed \cap ReversedKeys = {}

\* The step that detects sends no write, and the reversed-key strategy is entered
\* from the last total-supply candidate only.
DetectionBeforeWrites ==
    /\ iPc = "idle" /\ iPc' # "idle" => iPc' = "m1" /\ iWrites' = 0 /\ iProbed' = {}
    /\ iPc # "m7" /\ iPc' = "m7" =>
            iPc = "m6" /\ iIdx = Len(totalSupplySlots) /\ iRet' = "none"
    /\ ~(iProbed' \cap ReversedKeys \subseteq iProbed) => iPc = "m7"

C31_ReversedKeyGatedByDetection ==
    []ReversedKeyOnlyForProxy /\ [][DetectionBeforeWrites]_vars

\* A detected proxy on which the first six strategies failed gets a reversed-key write.
C31_Witness ==
    /\ iImpl /\ iPc \in {"m7", "ret"} /\ iProbed \cap ReversedKeys # {}

\* ---------------------------------------------------------------------------
\* C32: findBalanceSlot confirms and caches a slot only when balanceOf, read after
\* the sentinel was written to that slot, equals the sentinel exactly; a token
\* whose balanceOf gives another value gets no slot confirmed by the scan.
SentinelReadBack(slot) == balanceOf(tok, setStorageAt(storage, StdKey(slot), testAmount))

\* What a step of findBalanceSlot may do to the cache and to its return value.
SentinelConfirmsExactly ==
    (iPc = "m5find" /\ (cache' # cache \/ iFound' # iFound)) =>
        \/ cache # NoSlot /\ iIdx = 1 /\ cache' = cache /\ iFound' = cache
        \/ /\ cache' = COMMON_SLOTS_FOR_BALANCE_SET[iIdx]
           /\ SentinelReadBack(cache') = testAmount
           /\ iFound' \in {cache', iFound}

\* balanceOf of the token cannot give the sentinel back from any candidate slot.
InexactToken ==
    \A i \in 1..Len(COMMON_SLOTS_FOR_BALANCE_SET) :
        balanceOf(tok, setStorageAt(InitialStorage(tok),
                                    StdKey(COMMON_SLOTS_FOR_BALANCE_SET[i]), testAmount))
            # testAmount

NoSlotForInexactToken ==
    (InexactToken /\ iHadCache = NoSlot /\ iPc \in {"m5find", "m5", "m6"}) =>
        cache = NoSlot /\ iFound = NoSlot

C32_SentinelNeedsExactReadBack ==
    []NoSlotForInexactToken /\ [][SentinelConfirmsExactly]_vars

\* The scan confirmed a slot in a call that started without a cache entry.
C32_Witness ==
    /\ iPc = "m5" /\ iHadCache = NoSlot /\ iFound # NoSlot /\ cache = iFound
    /\ tok.bal = StdKey(iFound) /\ tok.mode = "exact"

\* ---------------------------------------------------------------------------
\* C33: the slots the direct slot probe goes through are exactly 0..20, 51, 52,
\* 100..105, 150, 200 and 255: each of them is probed, and no other slot is.
StatedSlots == (0..20) \cup {51, 52} \cup (100..105) \cup {150, 200, 255}

\* The slots method 1 has sent a write for.
DirectProbed == { k[2] : k \in { q \in iProbed : q[1] = "keccak(holder,slot)" } }

ProbesExactly(slots) ==
    /\ iPc \in {"m1", "m2"} => DirectProbed \subseteq slots
    /\ (iPc = "m2" /\ iFaults = 0) => DirectProbed = slots

C33_ProbedSlotsAsStated == ProbesExactly(StatedSlots)

\* As C33, with slot 50 in the list.
C33_ProbedSlotsWithFifty == ProbesExactly(StatedSlots \cup {50})

\* Method 1 went through its whole list with no node failure and verified nowhere.
C33_Witness ==
    /\ iPc = "m2" /\ iFaults = 0 /\ StdKey(50) \in iProbed /\ StdKey(20) \in iProbed

\* ---------------------------------------------------------------------------
\* C34: "Block requested not found" is transient at every retry site: under the
\* default classifier and under the fork reset's classifier alike, a failure with
\* that message is followed by another attempt while attempts remain.
C34_BlockNotFoundRetried ==
    (rPc = "thrown" /\ rThrown = Err(MsgBlockNotFound)) => rAttempt >= rOpts.maxAttempts

\* ---------------------------------------------------------------------------
\* C35: cache soundness.  Whenever the balance-slot cache holds a slot for the
\* token, the standard key of that slot, hash(holder || slot), is the location that
\* determines balanceOf; so is the slot findBalanceSlot hands to method 5.  A slot
\* that verified for another reason (a balance the holder already had, the
\* reversed key order) is not in the cache.
C35_CacheSound ==
    /\ (iPc # "off" /\ cache # NoSlot) => tok.bal = StdKey(cache)
    /\ iPc = "m5" => tok.bal = StdKey(iFound)

\* ---------------------------------------------------------------------------
\* C36: simulateTransaction never throws: whatever node call fails, a submission
\* that times out on every attempt included, it returns a SimulationResult; so
\* the wrapper of runComparison calls it exactly once per sample and the
\* wrapper's timeout branch (fork reset, then the whole simulation again) is
\* never taken.
SimulationStatuses == {"success", "reverted", "error"}

SimulationReturned ==
    (runPc = "sim" /\ sPc = "record" /\ sim.calls >= 1) =>
        /\ sim.calls = 1
        /\ simulationResult.status \in SimulationStatuses
        /\ simulationResult.status = "error" => simulationResult.amountOut = 0

\* simulateTransaction is entered from the dispatch only, and the run is aborted
\* by the fork reset that precedes the simulation only.
CalledOncePerSample ==
    /\ (runPc = "sim" /\ sim'.calls > sim.calls) => sPc = "dispatch" /\ sim.calls = 0
    /\ (runPc = "sim" /\ runPc' = "aborted") => sPc = "reset"
    /\ (runPc = "sim" /\ sPc = "submit") => forkBlock' = forkBlock /\ inBal' = inBal

C37_CleanupAtMostOnce ==
    gPc # "off" =>
        /\ gCleanups <= 1
        /\ gCleanups = IF gEvents = <<>> THEN 0 ELSE 1

\* Three events, two of them while the cleanup was awaited, and one cleanup.
C37_Witness ==
    /\ gPc = "cleanup" /\ Len(gEvents) = 3 /\ gCleanups = 1
    /\ gEvents[1] = "SIGTERM" /\ gEvents[2] = "uncaughtException" /\ gEvents[3] = "SIGINT"

\* ---------------------------------------------------------------------------
\* C38: processWithRecovery with continueOnItemError = true passes every item to
\* the processor exactly once, keeps at most maxConcurrent processor calls in
\* flight in concurrent mode, and returns an array with exactly one entry per item,
\* at the item's input index, whose success flag tells whether the item's
\* processor call resolved or rejected, for every completion order.
CalledAtMostOnce == \A i \in Items : bCalls[i] <= 1

InFlightWithinLimit == ~Sequential => Cardinality(bInFlight) <= bOpts.maxConcurrent

OneEntryPerItem ==
    /\ Len(bResults) = bOpts.items
    /\ \A i \in 1..bOpts.items :
        /\ bCalls[i] = 1
        /\ bResults[i] = Entry(i, bSettled[i] = "resolved")

C38_OneEntryPerItem ==
    bOpts.continueOnItemError =>
        /\ CalledAtMostOnce
        /\ InFlightWithinLimit
        /\ bPc = "returned" => OneEntryPerItem

\* The same, for callbacks that return
C38_OneEntryPerItemQuietCallbacks ==
    (~bOpts.onItemSuccessThrows /\ ~bOpts.onItemErrorThrows) => C38_OneEntryPerItem

\* ---------------------------------------------------------------------------
\* C39: processWithRecovery eventually returns for every finite item list and
\* every integer maxConcurrent >= 0, provided every processor call settles.
C39_EventuallyReturns == <>(bPc \in {"returned", "thrown"})

\* The same, for a limit of one or more
C39_EventuallyReturnsPositiveLimit ==
    bOpts.maxConcurrent >= 1 => <>(bPc \in {"returned", "thrown"})

\* ---------------------------------------------------------------------------
\* C40: for every sample with status "success" the reported amountOut is
\* non-negative, also when the output token is the native token, where the test
\* account's native balance is changed by the gas paid for the swap and by the
\* funding step as well.
C40_SuccessAmountNonNegative ==
    aResult.status = "success" => aResult.amountOut >= 0

\* The same, for an ERC20 output token
C40_SuccessAmountNonNegativeERC20 ==
    (aResult.status = "success" /\ ~aPair.outNative) => aResult.amountOut >= 0

====
